---- MODULE Spec2Model ----
(***************************************************************************)
(* Model of the AI chat pipeline of the support application:               *)
(*   server/routes.ts   POST /api/ai/chat, GET /api/ai/memory,             *)
(*                      GET/POST /api/ai/settings, isAuthenticatedLocal,   *)
(*                      isAdmin                                            *)
(*   server/storage.ts  DatabaseStorage (ai_settings, user_ai_memory,      *)
(*                      faq_knowledge)                                     *)
(*   server/gemini.ts   generateAIResponse, analyzePdfContent,             *)
(*                      generateFaqFromConversation                        *)
(*                                                                         *)
(* The server is a single-threaded event loop: a handler runs atomically   *)
(* from one await to the next, and every database statement is one atomic  *)
(* step.  Handlers of different requests interleave at their awaits.       *)
(***************************************************************************)
EXTENDS Integers, Sequences, FiniteSets, TLC

\* ------------------------------------------------------------------ bounds
MaxTurns == 2        \* rows of user_ai_memory in the concurrent model
MaxFaq == 1          \* rows ever inserted into faq_knowledge
MaxHistTurns == 12   \* chat calls of the single-user history model
MaxPartitionTurns == 3   \* chat calls of the two-user model
MaxComposeFaq == 3   \* FAQ entries handed to generateAIResponse
MaxClock == 2        \* milliseconds the clock of the chat page moves on
MaxSends == 2        \* messages sent from the chat page

\* ------------------------------------------------------- program constants
MemoryLimit == 10    \* storage.ts:209  .limit(10)
HistoryWindow == 5   \* gemini.ts:38    slice(-5)

\* The requests that can be in flight at the same time.
Reqs == {"r1", "r2"}

\* ------------------------------------------------------------- JS values
\* A value of req.body.message / req.body.enabled: its typeof tag and payload.
Undefined == [t |-> "undefined", s |-> <<>>, n |-> 0, b |-> FALSE]
Num(k) == [t |-> "number", s |-> <<>>, n |-> k, b |-> FALSE]
Str(chars) == [t |-> "string", s |-> chars, n |-> 0, b |-> FALSE]
Bool(v) == [t |-> "boolean", s |-> <<>>, n |-> 0, b |-> v]

\* JS truthiness: undefined, null, 0, "" and false are falsy; arrays and
\* objects are truthy.
Truthy(v) ==
  CASE v.t = "undefined" -> FALSE
    [] v.t = "null" -> FALSE
    [] v.t = "number" -> v.n # 0
    [] v.t = "string" -> Len(v.s) > 0
    [] v.t = "boolean" -> v.b
    [] OTHER -> TRUE

IsSpace(c) == c \in {" ", "\n"}

RECURSIVE TrimStart(_)
TrimStart(s) == IF s # <<>> /\ IsSpace(Head(s)) THEN TrimStart(Tail(s)) ELSE s

RECURSIVE TrimEnd(_)
TrimEnd(s) ==
  IF s # <<>> /\ IsSpace(s[Len(s)]) THEN TrimEnd(SubSeq(s, 1, Len(s) - 1)) ELSE s

\* String.prototype.trim
Trim(s) == TrimEnd(TrimStart(s))

\* The request bodies the model sends.
Messages ==
  { Undefined, Num(5), Str(<<>>), Str(<<" ">>), Str(<<"a">>), Str(<<" ", "a">>) }
EnabledValues == { Bool(TRUE), Bool(FALSE), Str(<<"a">>), Undefined }

\* ----------------------------------------------------------------- users
\* The users table: alice is an administrator, bob is not.
UserIds == {"alice", "bob"}
users == [u \in UserIds |-> [id |-> u, isAdmin |-> (u = "alice")]]

\* A session as passport presents it: no session, a local session (req.user.id)
\* or a Replit session (req.user.claims.sub with expires_at), the latter
\* possibly expired, with a refresh that is impossible ("none"), fails or works.
Session(u, kind, expired, refresh) ==
  [user |-> u, kind |-> kind, expired |-> expired, refresh |-> refresh]
NoSession == Session("anon", "none", FALSE, "none")
Sessions ==
  { NoSession,
    Session("alice", "local", FALSE, "none"),
    Session("bob", "local", FALSE, "none"),
    Session("bob", "replit", TRUE, "ok"),
    Session("bob", "replit", TRUE, "none"),
    Session("alice", "replit", TRUE, "fail") }

\* -------------------------------------------------------- remote backend
\* ai.models.generateContent: a reply with a text, a reply with an empty text,
\* a reply without a text (response.text is undefined), or a thrown error.
Replies ==
  { [ok |-> TRUE, present |-> TRUE, text |-> "Go to Settings"],
    [ok |-> TRUE, present |-> TRUE, text |-> ""],
    [ok |-> TRUE, present |-> FALSE, text |-> ""],
    [ok |-> FALSE, present |-> FALSE, text |-> "ECONNRESET"],
    [ok |-> FALSE, present |-> FALSE, text |-> "quota exceeded"] }

\* Whether a database statement succeeds, or throws with the given text.
DbOk == [ok |-> TRUE, text |-> ""]
DbOutcomes == { DbOk, [ok |-> FALSE, text |-> "connection terminated"] }

FallbackText == "I apologize, but I couldn't generate a response. Please try again."
GenerationErrorMessage == "Failed to generate AI response. Please try again later."

\* A request slot holds the handler's locals (user, message, enabled, settings,
\* history, prompt, aiResponse), its position pc, the response (status, body)
\* and the history of the call: the calls it made to the backend, the reads
\* and appends of the memory, the reads of the flag, whether the generation
\* failed, what the gate check read, and how many FAQ entries the knowledge
\* store held when the prompt was composed, and what the flag table said at
\* the moment of the append.
VARIABLES
  aiSettings,     \* table ai_settings: sequence of rows, in insertion order
  userAiMemory,   \* table user_ai_memory: sequence of rows, in insertion order
  faqKnowledge,   \* table faq_knowledge: sequence of rows
  faqSeq,         \* the serial of faq_knowledge.id
  req,            \* the request handled in each slot
  okCalls,        \* history: per user, the chat calls answered with 200
  lastSet,        \* history: the value of the latest update of the flag, if any
  geminiCall,     \* a call of a function of gemini.ts: its inputs and its outcome
  chatPage        \* the chat page of the client: its React state

vars ==
  <<aiSettings, userAiMemory, faqKnowledge, faqSeq, req, okCalls, lastSet, geminiCall,
    chatPage>>

NoRow == [id |-> 0, geminiEnabled |-> FALSE]
NoCall == [fn |-> "none", pc |-> "idle"]
NoBody == <<"none">>

Idle ==
  [ kind |-> "idle", pc |-> "idle", user |-> "anon", message |-> Undefined,
    enabled |-> Undefined, settings |-> NoRow, history |-> <<>>,
    prompt |-> <<>>, aiResponse |-> "", status |-> 0, body |-> NoBody,
    backendCalls |-> 0, memReads |-> 0, memAppends |-> 0, flagReads |-> 0,
    genFailed |-> FALSE, gate |-> "unread", faqSeen |-> 0, flagAtAppend |-> "none" ]

\* Date.now(): milliseconds since 1970, far above the indices of the loaded
\* history; it stands still or moves on between two events of the page.
ClockStart == 100

\* The page's state: the message list, the input field, the clock, whether
\* the mutation is pending, the data of the settings query, the latest toast,
\* and as history the list as it was before the latest send, whether the
\* latest event was the error handler's removal, and the number of sends.
ChatPageInit ==
  [ messages |-> <<>>, input |-> <<>>, now |-> ClockStart, isPending |-> FALSE,
    aiSettings |-> Undefined, toast |-> "none",
    before |-> <<>>, rolledBack |-> FALSE, sends |-> 0 ]

FlagRow(id, enabled) == [id |-> id, geminiEnabled |-> enabled]

\* Contents of ai_settings that the settings endpoints leave behind, with the
\* value of the latest update that led there: no row yet, the default row,
\* a row switched off, and the two rows of a raced first read, one switched off.
GateStates ==
  { <<<<>>, <<>>>>,
    <<<<FlagRow(1, TRUE)>>, <<>>>>,
    <<<<FlagRow(1, FALSE)>>, <<FALSE>>>>,
    <<<<FlagRow(1, TRUE), FlagRow(2, FALSE)>>, <<FALSE>>>> }

InitWith(gate) ==
  /\ aiSettings = gate[1]
  /\ lastSet = gate[2]
  /\ userAiMemory = <<>>
  /\ faqKnowledge = <<>>
  /\ faqSeq = 0
  /\ req = [r \in Reqs |-> Idle]
  /\ okCalls = [u \in UserIds |-> 0]
  /\ geminiCall = NoCall
  /\ chatPage = ChatPageInit

\* A fresh database.
InitFresh == InitWith(<<<<>>, <<>>>>)

\* A database whose flag the administrator may have set before.
Init == \E gate \in GateStates : InitWith(gate)

\* ---------------------------------------------------------------- storage
Reverse(s) == [i \in 1..Len(s) |-> s[Len(s) + 1 - i]]

Min(a, b) == IF a < b THEN a ELSE b

\* ORDER BY created_at DESC of a set of rows.
RECURSIVE OrderByCreatedAtDesc(_)
OrderByCreatedAtDesc(rows) ==
  IF rows = {} THEN <<>>
  ELSE LET newest == CHOOSE x \in rows : \A y \in rows : y.createdAt <= x.createdAt
       IN <<newest>> \o OrderByCreatedAtDesc(rows \ {newest})

\* Mutant: the WHERE clause on the user is missing.
getUserAiMemoryOfAll(userId) ==
  LET sorted == OrderByCreatedAtDesc({ userAiMemory[i] : i \in DOMAIN userAiMemory })
  IN SubSeq(sorted, 1, Min(Len(sorted), MemoryLimit))

\* DatabaseStorage.getUserAiMemory: the user's rows, newest first, at most 10.
getUserAiMemory(userId) ==
  LET mine == { userAiMemory[i] : i \in { j \in DOMAIN userAiMemory :
                                           userAiMemory[j].userId = userId } }
      sorted == OrderByCreatedAtDesc(mine)
  IN SubSeq(sorted, 1, Min(Len(sorted), MemoryLimit))

\* Mutant: an upsert per user, the new turn replaces the user's latest one.
createAiMemoryUpsert(userId, message, aiResponse) ==
  LET mine == { i \in DOMAIN userAiMemory : userAiMemory[i].userId = userId }
      last == CHOOSE i \in mine : \A j \in mine : j <= i
  IN IF mine = {}
     THEN Append(userAiMemory,
                 [ id |-> Len(userAiMemory) + 1, userId |-> userId, message |-> message,
                   aiResponse |-> aiResponse, createdAt |-> Len(userAiMemory) + 1 ])
     ELSE [userAiMemory EXCEPT ![last].message = message,
                               ![last].aiResponse = aiResponse]

\* Mutant: the INSERT is issued twice (a retry that does not check the first).
createAiMemoryTwice(userId, message, aiResponse) ==
  LET row(k) == [ id |-> Len(userAiMemory) + k, userId |-> userId, message |-> message,
                  aiResponse |-> aiResponse, createdAt |-> Len(userAiMemory) + k ]
  IN userAiMemory \o <<row(1), row(2)>>

\* Mutant: a turn with the same message replaces the user's earlier one.
createAiMemoryDedupe(userId, message, aiResponse) ==
  LET kept == SelectSeq(userAiMemory,
                        LAMBDA row : ~(row.userId = userId /\ row.message = message))
  IN Append(kept,
            [ id |-> Len(userAiMemory) + 1, userId |-> userId, message |-> message,
              aiResponse |-> aiResponse, createdAt |-> Len(userAiMemory) + 1 ])

\* DatabaseStorage.createAiMemory: one INSERT.  id is the serial; created_at
\* is defaultNow(), modelled as a logical time that grows with every insert.
createAiMemory(userId, message, aiResponse) ==
  Append(userAiMemory,
         [ id |-> Len(userAiMemory) + 1, userId |-> userId, message |-> message,
           aiResponse |-> aiResponse, createdAt |-> Len(userAiMemory) + 1 ])

\* Every row of ai_settings carries gemini_enabled = false.
FlagOff ==
  aiSettings # <<>> /\ \A i \in DOMAIN aiSettings : ~aiSettings[i].geminiEnabled

FlagNow == IF FlagOff THEN "disabled" ELSE "enabled"

\* db.select().from(aiSettings).limit(1): no ORDER BY, so with several rows
\* any of them may be the one returned; NoRow stands for an empty result.
SelectAiSettings ==
  IF aiSettings = <<>> THEN {NoRow} ELSE { aiSettings[i] : i \in DOMAIN aiSettings }

\* db.insert(aiSettings).values({geminiEnabled}).returning()
InsertedAiSettings(enabled) == [id |-> Len(aiSettings) + 1, geminiEnabled |-> enabled]
InsertAiSettings(enabled) == Append(aiSettings, InsertedAiSettings(enabled))

\* db.update(aiSettings).set({geminiEnabled}).where(eq(aiSettings.id, id))
UpdateAiSettings(id, enabled) ==
  [ i \in DOMAIN aiSettings |->
      IF aiSettings[i].id = id
      THEN [aiSettings[i] EXCEPT !.geminiEnabled = enabled]
      ELSE aiSettings[i] ]

\* ---------------------------------------------------------- prompt composer
Max(a, b) == IF a > b THEN a ELSE b

\* Array.prototype.slice(-k): the last k elements, or all when there are fewer.
SliceLast(s, k) == SubSeq(s, Max(1, Len(s) - k + 1), Len(s))

RECURSIVE FaqLines(_, _)
FaqLines(faqs, index) ==
  IF index > Len(faqs) THEN <<>>
  ELSE <<<<"faq", index, faqs[index].question, faqs[index].answer>>>>
         \o FaqLines(faqs, index + 1)

TurnLines(history) ==
  [i \in 1..Len(history) |-> <<"turn", history[i].message, history[i].aiResponse>>]

\* ConversationContext; faqKnowledge is optional (faqGiven says it is present).
Context(userId, message, history, faqGiven, faqs) ==
  [ userId |-> userId, message |-> message, history |-> history,
    faqGiven |-> faqGiven, faqKnowledge |-> faqs ]

\* Mutant: the marker of an empty history is emitted whatever the history is.
ComposePromptMarkerAlways(context) ==
  <<<<"persona">>>>
  \o (IF context.faqGiven /\ Len(context.faqKnowledge) > 0
      THEN <<<<"faqHeading">>>> \o FaqLines(context.faqKnowledge, 1)
             \o <<<<"faqInstruction">>>>
      ELSE <<>>)
  \o <<<<"historyHeading">>>>
  \o TurnLines(SliceLast(context.history, HistoryWindow))
  \o <<<<"noHistory">>>>
  \o <<<<"current", context.message>>>>

\* Mutant: the FAQ block is emitted for every list that is given, also an
\* empty one.
ComposePromptFaqAlways(context) ==
  <<<<"persona">>>>
  \o (IF context.faqGiven
      THEN <<<<"faqHeading">>>> \o FaqLines(context.faqKnowledge, 1)
             \o <<<<"faqInstruction">>>>
      ELSE <<>>)
  \o <<<<"historyHeading">>>>
  \o (IF Len(context.history) > 0
      THEN TurnLines(SliceLast(context.history, HistoryWindow))
      ELSE <<<<"noHistory">>>>)
  \o <<<<"current", context.message>>>>

\* generateAIResponse, lines 21-46: the prompt as the sequence of its parts.
ComposePrompt(context) ==
  <<<<"persona">>>>
  \o (IF context.faqGiven /\ Len(context.faqKnowledge) > 0
      THEN <<<<"faqHeading">>>> \o FaqLines(context.faqKnowledge, 1)
             \o <<<<"faqInstruction">>>>
      ELSE <<>>)
  \o <<<<"historyHeading">>>>
  \o (IF Len(context.history) > 0
      THEN TurnLines(SliceLast(context.history, HistoryWindow))
      ELSE <<<<"noHistory">>>>)
  \o <<<<"current", context.message>>>>

\* Mutant: the fallback replaces a missing text only (??), not an empty one.
ResponseTextNullish(reply) == IF reply.present THEN reply.text ELSE FallbackText

\* generateAIResponse, line 53: response.text || fallback
ResponseText(reply) ==
  IF reply.present /\ reply.text # "" THEN reply.text ELSE FallbackText

\* Mutant: the error of the backend is thrown on as it came.
generateAIResponseRethrows(reply) ==
  IF reply.ok THEN [threw |-> FALSE, value |-> ResponseText(reply)]
  ELSE [threw |-> TRUE, value |-> reply.text]

\* generateAIResponse, lines 48-57, given what generateContent does: the text
\* it returns, or the message of the error it throws.
generateAIResponse(reply) ==
  IF reply.ok THEN [threw |-> FALSE, value |-> ResponseText(reply)]
  ELSE [threw |-> TRUE, value |-> GenerationErrorMessage]

\* -------------------------------------------------------------- middleware
\* isAuthenticatedLocal: TRUE when next() is called, FALSE when it answers 401.
isAuthenticatedLocal(session) ==
  /\ session.kind # "none"
  /\ (session.kind = "replit" /\ session.expired) => session.refresh = "ok"

\* isAdmin: the status it answers with, or 0 when next() is called.
isAdmin(session, dbOutcome) ==
  IF session.user \notin UserIds THEN 401
  ELSE IF ~dbOutcome.ok THEN 500
  ELSE IF ~users[session.user].isAdmin THEN 403
  ELSE 0

Message(text) == <<"message", text>>

\* The handler has answered: its locals are gone, the response stays.
Answer(q, status, body) ==
  [ q EXCEPT !.pc = "done", !.status = status, !.body = body, !.settings = NoRow,
             !.history = <<>>, !.prompt = <<>>, !.aiResponse = "" ]

Free(r) == req[r].pc \in {"idle", "done"}

\* --------------------------------------------------- POST /api/ai/chat
\* Mutant: the whitespace test of line 253 is left out.
InvalidMessageNoTrim(m) == ~Truthy(m) \/ m.t # "string"

\* routes.ts line 253
InvalidMessage(m) == ~Truthy(m) \/ m.t # "string" \/ Len(Trim(m.s)) = 0

\* Mutant: the gate check never closes.
GateClosedNever(settings) == FALSE

\* routes.ts line 259
GateClosed(settings) == ~settings.geminiEnabled

\* History: the enabled-state of the row the gate check was given.
GateRead(row) == IF row.geminiEnabled THEN "enabled" ELSE "disabled"

\* Mutant: the rows are mapped without being reversed.
ConversationHistoryNotReversed(rows) ==
  [i \in 1..Len(rows) |-> [message |-> rows[i].message, aiResponse |-> rows[i].aiResponse]]

\* routes.ts lines 265-268
ConversationHistory(rows) ==
  LET rev == Reverse(rows)
  IN [i \in 1..Len(rev) |-> [message |-> rev[i].message, aiResponse |-> rev[i].aiResponse]]

\* routes.ts lines 271-275: the context handed to generateAIResponse.
ChatContext(userId, message, history) ==
  Context(userId, message, history, FALSE, <<>>)

\* Mutant: the flag is asked for before the message is validated.
ChatStartGateFirst(r, session, m) ==
  /\ Free(r)
  /\ LET q == [Idle EXCEPT !.kind = "chat", !.user = session.user, !.message = m]
     IN req' = [req EXCEPT ![r] =
          IF ~isAuthenticatedLocal(session)
          THEN Answer([Idle EXCEPT !.kind = "chat"], 401, Message("Unauthorized"))
          ELSE [q EXCEPT !.pc = "gateSelect"]]
  /\ UNCHANGED <<aiSettings, userAiMemory, faqKnowledge, faqSeq, okCalls, lastSet, geminiCall, chatPage>>

\* Lines 248-258: authentication, validation, then the flag is asked for.
ChatStart(r, session, m) ==
  /\ Free(r)
  /\ LET q == [Idle EXCEPT !.kind = "chat", !.user = session.user, !.message = m]
     IN req' = [req EXCEPT ![r] =
          IF ~isAuthenticatedLocal(session)
          THEN Answer([Idle EXCEPT !.kind = "chat"], 401, Message("Unauthorized"))
          ELSE IF InvalidMessage(m) THEN Answer(q, 400, Message("Message is required"))
          ELSE [q EXCEPT !.pc = "gateSelect"]]
  /\ UNCHANGED <<aiSettings, userAiMemory, faqKnowledge, faqSeq, okCalls, lastSet, geminiCall, chatPage>>

\* getAiSettings, line 222, and when a row comes back the gate check, lines 259-264.
ChatGateSelect(r, out) ==
  /\ req[r].kind = "chat" /\ req[r].pc = "gateSelect"
  /\ \E row \in SelectAiSettings :
       LET q == [req[r] EXCEPT !.flagReads = @ + 1]
       IN req' = [req EXCEPT ![r] =
            IF ~out.ok THEN Answer(q, 500, Message(out.text))
            ELSE IF row = NoRow THEN [q EXCEPT !.pc = "gateInsert"]
            ELSE IF GateClosed(row)
                 THEN Answer([q EXCEPT !.gate = GateRead(row)], 503,
                             Message("Gemini AI is currently disabled"))
            ELSE [q EXCEPT !.pc = "memLoad", !.gate = GateRead(row)]]
  /\ UNCHANGED <<aiSettings, userAiMemory, faqKnowledge, faqSeq, okCalls, lastSet, geminiCall, chatPage>>

\* getAiSettings, lines 225-231: no row was found, the default one is inserted.
ChatGateInsert(r, out) ==
  /\ req[r].kind = "chat" /\ req[r].pc = "gateInsert"
  /\ IF ~out.ok
     THEN /\ req' = [req EXCEPT ![r] = Answer(req[r], 500, Message(out.text))]
          /\ UNCHANGED aiSettings
     ELSE LET row == InsertedAiSettings(TRUE)
          IN /\ aiSettings' = InsertAiSettings(TRUE)
             /\ req' = [req EXCEPT ![r] =
                  IF GateClosed(row)
                  THEN Answer([req[r] EXCEPT !.gate = GateRead(row)], 503,
                              Message("Gemini AI is currently disabled"))
                  ELSE [req[r] EXCEPT !.pc = "memLoad", !.gate = GateRead(row)]]
  /\ UNCHANGED <<userAiMemory, faqKnowledge, faqSeq, okCalls, lastSet, geminiCall, chatPage>>

\* Lines 264-275 and gemini.ts 21-51: the history arrives, the prompt is
\* composed and sent to the backend.
ChatMemLoad(r, out) ==
  /\ req[r].kind = "chat" /\ req[r].pc = "memLoad"
  /\ LET q == [req[r] EXCEPT !.memReads = @ + 1]
         history == ConversationHistory(getUserAiMemory(q.user))
     IN req' = [req EXCEPT ![r] =
          IF ~out.ok THEN Answer(q, 500, Message(out.text))
          ELSE [q EXCEPT !.pc = "generate", !.history = history,
                         !.prompt = ComposePrompt(ChatContext(q.user, q.message, history)),
                         !.backendCalls = @ + 1, !.faqSeen = Len(faqKnowledge)]]
  /\ UNCHANGED <<aiSettings, userAiMemory, faqKnowledge, faqSeq, okCalls, lastSet, geminiCall, chatPage>>

\* Mutant: the turn is written before the outcome of the generation is looked at.
ChatGeneratePersistsFirst(r, reply) ==
  /\ req[r].kind = "chat" /\ req[r].pc = "generate"
  /\ userAiMemory' = createAiMemory(req[r].user, req[r].message, ResponseText(reply))
  /\ req' = [req EXCEPT ![r] =
       IF ~reply.ok
       THEN Answer([req[r] EXCEPT !.genFailed = TRUE], 500, Message(GenerationErrorMessage))
       ELSE [req[r] EXCEPT !.pc = "respond", !.aiResponse = ResponseText(reply),
                           !.history = <<>>, !.prompt = <<>>, !.memAppends = @ + 1]]
  /\ UNCHANGED <<aiSettings, faqKnowledge, faqSeq, okCalls, lastSet, geminiCall, chatPage>>

\* gemini.ts 48-57 and routes.ts 278 / 285-288: the backend answers or fails.
ChatGenerate(r, reply) ==
  /\ req[r].kind = "chat" /\ req[r].pc = "generate"
  /\ LET result == generateAIResponse(reply)
     IN req' = [req EXCEPT ![r] =
          IF result.threw
          THEN Answer([req[r] EXCEPT !.genFailed = TRUE], 500, Message(result.value))
          ELSE [req[r] EXCEPT !.pc = "persist", !.aiResponse = result.value,
                              !.history = <<>>, !.prompt = <<>>]]
  /\ UNCHANGED <<aiSettings, userAiMemory, faqKnowledge, faqSeq, okCalls, lastSet, geminiCall, chatPage>>

\* Mutant: the handler hands the stored turn to the learner and saves what
\* it would return for a reply without refined fields, the pair as it is.
ChatPersistLearns(r, out) ==
  /\ req[r].kind = "chat" /\ req[r].pc = "persist"
  /\ IF ~out.ok
     THEN /\ req' = [req EXCEPT ![r] = Answer(req[r], 500, Message(out.text))]
          /\ UNCHANGED <<userAiMemory, faqKnowledge, faqSeq>>
     ELSE /\ userAiMemory' = createAiMemory(req[r].user, req[r].message, req[r].aiResponse)
          /\ faqSeq' = faqSeq + 1
          /\ faqKnowledge' = Append(faqKnowledge,
               [id |-> faqSeq + 1, question |-> "a", answer |-> req[r].aiResponse])
          /\ req' = [req EXCEPT ![r] = [req[r] EXCEPT !.pc = "respond", !.memAppends = @ + 1,
                                                      !.flagAtAppend = FlagNow]]
  /\ UNCHANGED <<aiSettings, okCalls, lastSet, geminiCall, chatPage>>

\* Mutant: the flag is asked for again before the turn is written.
ChatPersistChecksGate(r, out) ==
  /\ req[r].kind = "chat" /\ req[r].pc = "persist"
  /\ LET q == [req[r] EXCEPT !.flagReads = @ + 1]
     IN IF ~out.ok
        THEN /\ req' = [req EXCEPT ![r] = Answer(q, 500, Message(out.text))]
             /\ UNCHANGED userAiMemory
        ELSE IF FlagOff
        THEN /\ req' = [req EXCEPT ![r] =
                         Answer(q, 503, Message("Gemini AI is currently disabled"))]
             /\ UNCHANGED userAiMemory
        ELSE /\ userAiMemory' = createAiMemory(q.user, q.message, q.aiResponse)
             /\ req' = [req EXCEPT ![r] = [q EXCEPT !.pc = "respond", !.memAppends = @ + 1,
                                                     !.flagAtAppend = FlagNow]]
  /\ UNCHANGED <<aiSettings, faqKnowledge, faqSeq, okCalls, lastSet, geminiCall, chatPage>>

\* Mutant: a failed INSERT is swallowed and the generated text is answered.
ChatPersistSwallowsFailure(r, out) ==
  /\ req[r].kind = "chat" /\ req[r].pc = "persist"
  /\ IF ~out.ok
     THEN /\ req' = [req EXCEPT ![r] = [req[r] EXCEPT !.pc = "respond"]]
          /\ UNCHANGED userAiMemory
     ELSE /\ userAiMemory' = createAiMemory(req[r].user, req[r].message, req[r].aiResponse)
          /\ req' = [req EXCEPT ![r] = [req[r] EXCEPT !.pc = "respond", !.memAppends = @ + 1,
                                                      !.flagAtAppend = FlagNow]]
  /\ UNCHANGED <<aiSettings, faqKnowledge, faqSeq, okCalls, lastSet, geminiCall, chatPage>>

\* routes.ts 278-282, storage.ts 212-218: the INSERT of the turn.
ChatPersist(r, out) ==
  /\ req[r].kind = "chat" /\ req[r].pc = "persist"
  /\ IF ~out.ok
     THEN /\ req' = [req EXCEPT ![r] = Answer(req[r], 500, Message(out.text))]
          /\ UNCHANGED userAiMemory
     ELSE /\ userAiMemory' = createAiMemory(req[r].user, req[r].message, req[r].aiResponse)
          /\ req' = [req EXCEPT ![r] = [req[r] EXCEPT !.pc = "respond", !.memAppends = @ + 1,
                                                      !.flagAtAppend = FlagNow]]
  /\ UNCHANGED <<aiSettings, faqKnowledge, faqSeq, okCalls, lastSet, geminiCall, chatPage>>

\* routes.ts 284: res.json({ response: aiResponse })
ChatRespond(r) ==
  /\ req[r].kind = "chat" /\ req[r].pc = "respond"
  /\ req' = [req EXCEPT ![r] = Answer(req[r], 200, <<"response", req[r].aiResponse>>)]
  /\ okCalls' = [okCalls EXCEPT ![req[r].user] = @ + 1]
  /\ UNCHANGED <<aiSettings, userAiMemory, faqKnowledge, faqSeq, lastSet, geminiCall, chatPage>>

\* --------------------------------------------------- GET /api/ai/memory
\* routes.ts 291-293
MemoryStart(r, session) ==
  /\ Free(r)
  /\ LET q == [Idle EXCEPT !.kind = "memory", !.user = session.user]
     IN req' = [req EXCEPT ![r] =
          IF ~isAuthenticatedLocal(session)
          THEN Answer([Idle EXCEPT !.kind = "memory"], 401, Message("Unauthorized"))
          ELSE [q EXCEPT !.pc = "memSelect"]]
  /\ UNCHANGED <<aiSettings, userAiMemory, faqKnowledge, faqSeq, okCalls, lastSet, geminiCall, chatPage>>

\* routes.ts 294-299
MemorySelect(r, out) ==
  /\ req[r].kind = "memory" /\ req[r].pc = "memSelect"
  /\ LET q == [req[r] EXCEPT !.memReads = @ + 1]
     IN req' = [req EXCEPT ![r] =
          IF ~out.ok THEN Answer(q, 500, Message("Failed to fetch conversation history"))
          ELSE Answer(q, 200, <<"memory", Reverse(getUserAiMemory(q.user))>>)]
  /\ UNCHANGED <<aiSettings, userAiMemory, faqKnowledge, faqSeq, okCalls, lastSet, geminiCall, chatPage>>

\* --------------------------------------------------- GET /api/ai/settings
\* routes.ts 303-305
GetSettingsStart(r, session) ==
  /\ Free(r)
  /\ LET q == [Idle EXCEPT !.kind = "getSettings", !.user = session.user]
     IN req' = [req EXCEPT ![r] =
          IF ~isAuthenticatedLocal(session)
          THEN Answer([Idle EXCEPT !.kind = "getSettings"], 401, Message("Unauthorized"))
          ELSE [q EXCEPT !.pc = "getSelect"]]
  /\ UNCHANGED <<aiSettings, userAiMemory, faqKnowledge, faqSeq, okCalls, lastSet, geminiCall, chatPage>>

\* getAiSettings, line 222, and routes.ts 306 when a row comes back.
GetSettingsSelect(r, out) ==
  /\ req[r].kind = "getSettings" /\ req[r].pc = "getSelect"
  /\ \E row \in SelectAiSettings :
       LET q == [req[r] EXCEPT !.flagReads = @ + 1]
       IN req' = [req EXCEPT ![r] =
            IF ~out.ok THEN Answer(q, 500, Message("Failed to fetch AI settings"))
            ELSE IF row = NoRow THEN [q EXCEPT !.pc = "getInsert"]
            ELSE Answer(q, 200, <<"geminiEnabled", row.geminiEnabled>>)]
  /\ UNCHANGED <<aiSettings, userAiMemory, faqKnowledge, faqSeq, okCalls, lastSet, geminiCall, chatPage>>

\* getAiSettings, lines 225-231, and routes.ts 306.
GetSettingsInsert(r, out) ==
  /\ req[r].kind = "getSettings" /\ req[r].pc = "getInsert"
  /\ IF ~out.ok
     THEN /\ req' = [req EXCEPT ![r] =
                       Answer(req[r], 500, Message("Failed to fetch AI settings"))]
          /\ UNCHANGED aiSettings
     ELSE /\ aiSettings' = InsertAiSettings(TRUE)
          /\ req' = [req EXCEPT ![r] =
               Answer(req[r], 200, <<"geminiEnabled", InsertedAiSettings(TRUE).geminiEnabled>>)]
  /\ UNCHANGED <<userAiMemory, faqKnowledge, faqSeq, okCalls, lastSet, geminiCall, chatPage>>

\* --------------------------------------------------- POST /api/ai/settings
\* isAuthenticatedLocal, isAdmin, then routes.ts 315-321.
SetSettingsStart(r, session, enabled, adminLookup) ==
  /\ Free(r)
  /\ LET q == [Idle EXCEPT !.kind = "setSettings", !.user = session.user,
                           !.enabled = enabled]
         admin == isAdmin(session, adminLookup)
         none == [Idle EXCEPT !.kind = "setSettings"]
     IN req' = [req EXCEPT ![r] =
          IF ~isAuthenticatedLocal(session) THEN Answer(none, 401, Message("Unauthorized"))
          ELSE IF admin = 401 THEN Answer(none, 401, Message("Unauthorized"))
          ELSE IF admin = 500
               THEN Answer(none, 500, Message("Failed to verify admin status"))
          ELSE IF admin = 403 THEN Answer(none, 403, Message("Admin access required"))
          ELSE IF enabled.t # "boolean"
               THEN Answer(q, 400, Message("enabled must be a boolean"))
          ELSE [q EXCEPT !.pc = "setSelect"]]
  /\ UNCHANGED <<aiSettings, userAiMemory, faqKnowledge, faqSeq, okCalls, lastSet, geminiCall, chatPage>>

\* updateAiSettings, line 237: getAiSettings, line 222.
SetSettingsSelect(r, out) ==
  /\ req[r].kind = "setSettings" /\ req[r].pc = "setSelect"
  /\ \E row \in SelectAiSettings :
       LET q == [req[r] EXCEPT !.flagReads = @ + 1]
       IN req' = [req EXCEPT ![r] =
            IF ~out.ok THEN Answer(q, 500, Message("Failed to update AI settings"))
            ELSE IF row = NoRow THEN [q EXCEPT !.pc = "setInsert"]
            ELSE [q EXCEPT !.pc = "setUpdate", !.settings = row]]
  /\ UNCHANGED <<aiSettings, userAiMemory, faqKnowledge, faqSeq, okCalls, lastSet, geminiCall, chatPage>>

\* updateAiSettings, line 237: getAiSettings, lines 225-231.
SetSettingsInsert(r, out) ==
  /\ req[r].kind = "setSettings" /\ req[r].pc = "setInsert"
  /\ IF ~out.ok
     THEN /\ req' = [req EXCEPT ![r] =
                       Answer(req[r], 500, Message("Failed to update AI settings"))]
          /\ UNCHANGED aiSettings
     ELSE /\ aiSettings' = InsertAiSettings(TRUE)
          /\ req' = [req EXCEPT ![r] =
               [req[r] EXCEPT !.pc = "setUpdate", !.settings = InsertedAiSettings(TRUE)]]
  /\ UNCHANGED <<userAiMemory, faqKnowledge, faqSeq, okCalls, lastSet, geminiCall, chatPage>>

\* updateAiSettings, lines 239-245, and routes.ts 322.
SetSettingsUpdate(r, out) ==
  /\ req[r].kind = "setSettings" /\ req[r].pc = "setUpdate"
  /\ IF ~out.ok
     THEN /\ req' = [req EXCEPT ![r] =
                       Answer(req[r], 500, Message("Failed to update AI settings"))]
          /\ UNCHANGED <<aiSettings, lastSet>>
     ELSE /\ aiSettings' = UpdateAiSettings(req[r].settings.id, req[r].enabled.b)
          /\ lastSet' = <<req[r].enabled.b>>
          /\ req' = [req EXCEPT ![r] =
               Answer(req[r], 200, <<"geminiEnabled", req[r].enabled.b>>)]
  /\ UNCHANGED <<userAiMemory, faqKnowledge, faqSeq, okCalls, geminiCall, chatPage>>

\* ------------------------------------------------------- knowledge store
FaqTexts == { [question |-> "How do I reset?", answer |-> "Go to Settings"] }

\* DatabaseStorage.createFaqKnowledge
createFaqKnowledge(faq) ==
  /\ faqSeq < MaxFaq
  /\ faqSeq' = faqSeq + 1
  /\ faqKnowledge' = Append(faqKnowledge,
       [id |-> faqSeq + 1, question |-> faq.question, answer |-> faq.answer])
  /\ UNCHANGED <<aiSettings, userAiMemory, req, okCalls, lastSet, geminiCall, chatPage>>

\* DatabaseStorage.deleteFaqKnowledge
deleteFaqKnowledge(id) ==
  /\ \E i \in DOMAIN faqKnowledge : faqKnowledge[i].id = id
  /\ faqKnowledge' = SelectSeq(faqKnowledge, LAMBDA row : row.id # id)
  /\ UNCHANGED <<aiSettings, userAiMemory, faqSeq, req, okCalls, lastSet, geminiCall, chatPage>>

\* ------------------------------------------------------- gemini.ts: texts
\* A text is the sequence of its pieces: the code-fence marker of three
\* backquotes (written "fence"), the word "json", a newline, a blank, the
\* punctuation of JSON, and words.
Null == [t |-> "null", s |-> <<>>, n |-> 0, b |-> FALSE]
Arr(items) == [t |-> "array", s |-> items, n |-> 0, b |-> FALSE]
\* An object: its members in the order of the text, each <<key, value>>.
Obj(members) == [t |-> "object", s |-> members, n |-> 0, b |-> FALSE]

\* String.prototype.replace(/<marker>\n?/g, ''): every occurrence of the
\* marker, with the newline after it if there is one, is taken out.
RECURSIVE RemoveAll(_, _)
RemoveAll(s, marker) ==
  LET m == Len(marker)
  IN IF s = <<>> THEN <<>>
     ELSE IF Len(s) >= m /\ SubSeq(s, 1, m) = marker
          THEN IF Len(s) > m /\ s[m + 1] = "\n"
               THEN RemoveAll(SubSeq(s, m + 2, Len(s)), marker)
               ELSE RemoveAll(SubSeq(s, m + 1, Len(s)), marker)
     ELSE <<Head(s)>> \o RemoveAll(Tail(s), marker)

\* gemini.ts 88 and 139: the reply with its code-fence markers stripped.
CleanedText(text) == Trim(RemoveAll(RemoveAll(text, <<"fence", "json">>), <<"fence">>))

\* ------------------------------------------------------- JSON.parse
\* The number literals of the texts, with their values.
NumberLiterals == {"0", "5"}
NumberValue(word) == IF word = "0" THEN 0 ELSE 5

SyntaxError == [ok |-> FALSE, value |-> Undefined, next |-> 0]
Parsed(value, next) == [ok |-> TRUE, value |-> value, next |-> next]

RECURSIVE SkipSpace(_, _)
SkipSpace(s, i) == IF i <= Len(s) /\ IsSpace(s[i]) THEN SkipSpace(s, i + 1) ELSE i

\* The closing quote of the string that opens before i, or 0: a string ends
\* at the next quote and holds no raw newline.
RECURSIVE StringEnd(_, _)
StringEnd(s, i) ==
  IF i > Len(s) \/ s[i] = "\n" THEN 0
  ELSE IF s[i] = "\"" THEN i
  ELSE StringEnd(s, i + 1)

\* A string literal whose opening quote is s[i].
ParseString(s, i) ==
  LET e == StringEnd(s, i + 1)
  IN IF e = 0 THEN SyntaxError ELSE Parsed(Str(SubSeq(s, i + 1, e - 1)), e + 1)

RECURSIVE ParseValue(_, _)
RECURSIVE ParseElements(_, _, _)
RECURSIVE ParseMembers(_, _, _)

\* A JSON value that starts at or after s[from], blanks skipped.
ParseValue(s, from) ==
  LET i == SkipSpace(s, from)
  IN IF i > Len(s) THEN SyntaxError
     ELSE CASE s[i] = "null" -> Parsed(Null, i + 1)
            [] s[i] = "true" -> Parsed(Bool(TRUE), i + 1)
            [] s[i] = "false" -> Parsed(Bool(FALSE), i + 1)
            [] s[i] \in NumberLiterals -> Parsed(Num(NumberValue(s[i])), i + 1)
            [] s[i] = "\"" -> ParseString(s, i)
            [] s[i] = "[" ->
                 LET j == SkipSpace(s, i + 1)
                 IN IF j <= Len(s) /\ s[j] = "]" THEN Parsed(Arr(<<>>), j + 1)
                    ELSE ParseElements(s, i + 1, <<>>)
            [] s[i] = "{" ->
                 LET j == SkipSpace(s, i + 1)
                 IN IF j <= Len(s) /\ s[j] = "}" THEN Parsed(Obj(<<>>), j + 1)
                    ELSE ParseMembers(s, i + 1, <<>>)
            [] OTHER -> SyntaxError

\* The elements of an array from s[from] on, after those of acc.
ParseElements(s, from, acc) ==
  LET v == ParseValue(s, from)
      j == SkipSpace(s, v.next)
  IN IF ~v.ok \/ j > Len(s) THEN SyntaxError
     ELSE IF s[j] = "," THEN ParseElements(s, j + 1, Append(acc, v.value))
     ELSE IF s[j] = "]" THEN Parsed(Arr(Append(acc, v.value)), j + 1)
     ELSE SyntaxError

\* The members of an object from s[from] on, after those of acc.
ParseMembers(s, from, acc) ==
  LET k == SkipSpace(s, from)
      key == IF k <= Len(s) /\ s[k] = "\"" THEN ParseString(s, k) ELSE SyntaxError
      c == SkipSpace(s, key.next)
      v == IF key.ok /\ c <= Len(s) /\ s[c] = ":" THEN ParseValue(s, c + 1)
           ELSE SyntaxError
      j == SkipSpace(s, v.next)
      member == <<key.value.s, v.value>>
  IN IF ~v.ok \/ j > Len(s) THEN SyntaxError
     ELSE IF s[j] = "," THEN ParseMembers(s, j + 1, Append(acc, member))
     ELSE IF s[j] = "}" THEN Parsed(Obj(Append(acc, member)), j + 1)
     ELSE SyntaxError

\* JSON.parse: the value of the whole text, or a SyntaxError.
JSONParse(s) ==
  LET v == ParseValue(s, 1)
  IN IF v.ok /\ SkipSpace(s, v.next) > Len(s) THEN v ELSE SyntaxError

\* value[key]: the last member of that name of an object, undefined for a
\* missing member and for the values that are no objects (null throws, see
\* the callers).
RECURSIVE Member(_, _, _)
Member(members, key, i) ==
  IF i = 0 THEN Undefined
  ELSE IF members[i][1] = key THEN members[i][2]
  ELSE Member(members, key, i - 1)

Get(value, key) ==
  IF value.t = "object" THEN Member(value.s, <<key>>, Len(value.s)) ELSE Undefined

\* a || b
Or(a, b) == IF Truthy(a) THEN a ELSE b

\* ------------------------------------------------------- gemini.ts: calls
AnalysisErrorMessage ==
  "Failed to analyze PDF content. Please check the PDF URL and try again."

\* gemini.ts 85: the text parsed when the reply has none, "[]".
DefaultAnalysisText == <<"[", "]">>

\* Mutant: a reply without a text is read as the empty object.
DefaultLearningTextEmptyObject == <<"{", "}">>

\* gemini.ts 136: the text parsed when the reply has none, '{ "shouldSave": false }'.
DefaultLearningText ==
  <<"{", " ", "\"", "shouldSave", "\"", ":", " ", "false", " ", "}">>

\* response.text || fallback, for the replies whose text is parsed.
TextOr(reply, fallback) ==
  IF reply.present /\ reply.text # <<>> THEN reply.text ELSE fallback

Returned(value) == [threw |-> FALSE, value |-> value]
Thrown(message) == [threw |-> TRUE, value |-> message]

\* Mutant: a reply that cannot be parsed is an error of the analysis.
analyzePdfContentThrowsOnParse(reply) ==
  IF ~reply.ok THEN Thrown(AnalysisErrorMessage)
  ELSE LET faqs == JSONParse(CleanedText(TextOr(reply, DefaultAnalysisText)))
       IN IF ~faqs.ok THEN Thrown(AnalysisErrorMessage)
          ELSE Returned(faqs.value)

\* Mutant: a failed call of the backend gives the empty list as well.
analyzePdfContentNeverThrows(reply) ==
  IF ~reply.ok THEN Returned(Arr(<<>>))
  ELSE LET faqs == JSONParse(CleanedText(TextOr(reply, DefaultAnalysisText)))
       IN IF ~faqs.ok THEN Returned(Arr(<<>>))
          ELSE IF faqs.value.t = "array" THEN Returned(faqs.value)
          ELSE Returned(Arr(<<>>))

\* analyzePdfContent, gemini.ts 61-100, given what generateContent does.
analyzePdfContent(reply) ==
  IF ~reply.ok THEN Thrown(AnalysisErrorMessage)
  ELSE LET faqs == JSONParse(CleanedText(TextOr(reply, DefaultAnalysisText)))
       IN IF ~faqs.ok THEN Returned(Arr(<<>>))
          ELSE IF faqs.value.t = "array" THEN Returned(faqs.value)
          ELSE Returned(Arr(<<>>))

\* The pair generateFaqFromConversation returns.
FaqPair(question, answer) ==
  Obj(<< <<<<"question">>, question>>, <<<<"answer">>, answer>> >>)

\* Mutant: the fields of the reply are returned as they are.
generateFaqFromConversationNoFallback(question, answer, reply) ==
  IF ~reply.ok THEN Returned(Null)
  ELSE LET parsed == JSONParse(CleanedText(TextOr(reply, DefaultLearningText)))
           result == parsed.value
           shouldSave == Get(result, "shouldSave")
       IN IF ~parsed.ok \/ result.t = "null" THEN Returned(Null)
          ELSE IF shouldSave.t = "boolean" /\ ~shouldSave.b THEN Returned(Null)
          ELSE Returned(FaqPair(Get(result, "question"), Get(result, "answer")))

\* Mutant: a reply that carries neither a question nor an answer gives null.
generateFaqFromConversationNeedsField(question, answer, reply) ==
  IF ~reply.ok THEN Returned(Null)
  ELSE LET parsed == JSONParse(CleanedText(TextOr(reply, DefaultLearningText)))
           result == parsed.value
           shouldSave == Get(result, "shouldSave")
       IN IF ~parsed.ok \/ result.t = "null" THEN Returned(Null)
          ELSE IF shouldSave.t = "boolean" /\ ~shouldSave.b THEN Returned(Null)
          ELSE IF ~Truthy(Get(result, "question")) /\ ~Truthy(Get(result, "answer"))
               THEN Returned(Null)
          ELSE Returned(FaqPair(Or(Get(result, "question"), Str(question)),
                                Or(Get(result, "answer"), Str(answer))))

\* generateFaqFromConversation, gemini.ts 103-158, given what generateContent
\* does.  A reply that parses to null makes result.shouldSave throw a
\* TypeError, which the inner catch turns into null.
generateFaqFromConversation(question, answer, reply) ==
  IF ~reply.ok THEN Returned(Null)
  ELSE LET parsed == JSONParse(CleanedText(TextOr(reply, DefaultLearningText)))
           result == parsed.value
           shouldSave == Get(result, "shouldSave")
       IN IF ~parsed.ok \/ result.t = "null" THEN Returned(Null)
          ELSE IF shouldSave.t = "boolean" /\ ~shouldSave.b THEN Returned(Null)
          ELSE Returned(FaqPair(Or(Get(result, "question"), Str(question)),
                                Or(Get(result, "answer"), Str(answer))))

\* ------------------------------------------------------- gemini.ts: replies
\* The text of a string literal and of an object with the given members.
Lit(chars) == <<"\"">> \o chars \o <<"\"">>

RECURSIVE MembersText(_, _)
MembersText(members, i) ==
  IF i > Len(members) THEN <<>>
  ELSE Lit(<<members[i][1]>>) \o <<":", " ">> \o members[i][2]
       \o (IF i < Len(members) THEN <<",", " ">> ELSE <<>>)
       \o MembersText(members, i + 1)

ObjectText(members) == <<"{">> \o MembersText(members, 1) \o <<"}">>

EntryText(q, a) == ObjectText(<< <<"question", Lit(q)>>, <<"answer", Lit(a)>> >>)

\* JSON arrays of {question, answer} objects, the last with an answer that
\* quotes a command between code-fence markers.
ArrayTexts ==
  { <<"[", "]">>,
    <<"[">> \o EntryText(<<"Q1">>, <<"A1">>) \o <<"]">>,
    <<"[", "\n">> \o EntryText(<<"Q1">>, <<"A1">>) \o <<",", "\n">>
      \o EntryText(<<"Q2">>, <<"A2">>) \o <<"\n", "]">>,
    <<"[">> \o EntryText(<<"Q1">>, <<"run", " ", "fence", "npm", "fence">>) \o <<"]">> }

\* JSON arrays whose elements are no {question, answer} objects of texts: a
\* number, a string, null, an object without an answer, an object with an
\* empty question, and an object whose answer is a number.
MisshapenArrayTexts ==
  { <<"[", "5", "]">>,
    <<"[">> \o Lit(<<"Q1">>) \o <<"]">>,
    <<"[", "null", "]">>,
    <<"[">> \o ObjectText(<< <<"question", Lit(<<"Q1">>)>> >>) \o <<"]">>,
    <<"[">> \o EntryText(<<>>, <<"A1">>) \o <<"]">>,
    <<"[">> \o ObjectText(<< <<"question", Lit(<<"Q1">>)>>, <<"answer", <<"5">>>> >>)
      \o <<"]">>,
    <<"[">> \o EntryText(<<"Q1">>, <<"A1">>) \o <<",", " ", "5", "]">> }

\* A text between the markers of a json code fence, and of a plain one.
Fenced(text) == <<"fence", "json", "\n">> \o text \o <<"\n", "fence">>
PlainFenced(text) == <<"fence", "\n">> \o text \o <<"\n", "fence">>

\* Texts that are no JSON, and JSON texts that are no array.
NotJsonTexts ==
  { <<" ">>,
    <<"not", " ", "json">>,
    <<"[">> \o EntryText(<<"Q1">>, <<"A1">>),
    <<"[", "]", " ", "sorry">>,
    <<"{">> \o Lit(<<"question">>) \o <<"}">> }

NotArrayTexts ==
  { <<"null">>, <<"5">>, Lit(<<"Q1">>), EntryText(<<"Q1">>, <<"A1">>), <<"{", "}">> }

\* Replies of the learner: the sentinel, refined pairs, pairs with a field
\* missing, empty, null or not a text, and a sentinel that is not false.
ShouldSaveFalseText == ObjectText(<< <<"shouldSave", <<"false">>>> >>)

LearningTexts ==
  { ShouldSaveFalseText,
    ObjectText(<< <<"shouldSave", <<"false">>>>, <<"question", Lit(<<"Q1">>)>>,
                  <<"answer", Lit(<<"A1">>)>> >>),
    ObjectText(<< <<"shouldSave", <<"true">>>>, <<"question", Lit(<<"Q1">>)>>,
                  <<"answer", Lit(<<"A1">>)>> >>),
    ObjectText(<< <<"shouldSave", Lit(<<"false">>)>> >>),
    ObjectText(<< <<"answer", Lit(<<"A1">>)>> >>),
    ObjectText(<< <<"question", Lit(<<"Q1">>)>> >>),
    ObjectText(<< <<"question", Lit(<<>>)>>, <<"answer", Lit(<<"A1">>)>> >>),
    ObjectText(<< <<"question", Lit(<<"Q1">>)>>, <<"answer", Lit(<<>>)>> >>),
    ObjectText(<< <<"question", <<"null">>>>, <<"answer", <<"5">>>> >>),
    ObjectText(<< <<"shouldSave", <<"true">>>> >>) }

ReplyTexts ==
  ArrayTexts \cup { Fenced(text) : text \in ArrayTexts }
    \cup { PlainFenced(text) : text \in ArrayTexts }
    \cup MisshapenArrayTexts \cup NotJsonTexts \cup NotArrayTexts \cup LearningTexts
    \cup { Fenced(ShouldSaveFalseText), Fenced(EntryText(<<"Q1">>, <<"A1">>)) }

\* generateContent for the calls whose reply is parsed: a reply with a text,
\* with an empty text, without a text, or one of two thrown errors.
ParsedReplies ==
  { [ok |-> TRUE, present |-> TRUE, text |-> text] : text \in ReplyTexts \cup {<<>>} }
    \cup { [ok |-> TRUE, present |-> FALSE, text |-> <<>>],
           [ok |-> FALSE, present |-> FALSE, text |-> <<"ECONNRESET">>],
           [ok |-> FALSE, present |-> FALSE, text |-> <<"service", " ", "unavailable">>] }

\* The conversations handed to the learner: question and answer.
Conversations == { <<<<"q0">>, <<"a0">>>>, <<<<"q1">>, <<>>>> }

\* ------------------------------------------------------- gemini.ts: steps
NoResult == Returned(Undefined)

Called(fn, question, answer, reply) ==
  [ fn |-> fn, pc |-> "called", question |-> question, answer |-> answer,
    reply |-> reply, result |-> NoResult ]

Return(result) ==
  /\ geminiCall' = [geminiCall EXCEPT !.pc = "returned", !.result = result]
  /\ UNCHANGED <<aiSettings, userAiMemory, faqKnowledge, faqSeq, req, okCalls, lastSet, chatPage>>

\* The contexts handed to generateAIResponse: with or without a history,
\* without an FAQ list or with one of up to MaxComposeFaq entries.
ComposeFaqs ==
  { [question |-> "How do I reset?", answer |-> "Go to Settings"],
    [question |-> "Where is billing?", answer |-> "In Account"] }

FaqLists == UNION { [1..n -> ComposeFaqs] : n \in 0..MaxComposeFaq }

ComposeHistories ==
  { <<>>, <<[message |-> Str(<<"a">>), aiResponse |-> "Go to Settings"]>> }

Contexts ==
  { Context("alice", Str(<<"a">>), history, FALSE, <<>>) : history \in ComposeHistories }
    \cup { Context("alice", Str(<<"a">>), history, TRUE, faqs) :
             history \in ComposeHistories, faqs \in FaqLists }

CalledWith(context, reply) ==
  [ fn |-> "generateAIResponse", pc |-> "called", question |-> <<>>, answer |-> <<>>,
    reply |-> reply, result |-> NoResult, context |-> context, prompt |-> <<>> ]

\* generateAIResponse: the prompt is composed, generateContent is awaited and
\* its outcome is returned or thrown.
GenerateAIResponseEnds ==
  /\ geminiCall.fn = "generateAIResponse" /\ geminiCall.pc = "called"
  /\ geminiCall' = [geminiCall EXCEPT !.pc = "returned",
                                      !.prompt = ComposePrompt(geminiCall.context),
                                      !.result = generateAIResponse(geminiCall.reply)]
  /\ UNCHANGED <<aiSettings, userAiMemory, faqKnowledge, faqSeq, req, okCalls, lastSet, chatPage>>

AnalyzePdfContentEnds ==
  /\ geminiCall.fn = "analyzePdfContent" /\ geminiCall.pc = "called"
  /\ Return(analyzePdfContent(geminiCall.reply))

GenerateFaqFromConversationEnds ==
  /\ geminiCall.fn = "generateFaqFromConversation" /\ geminiCall.pc = "called"
  /\ Return(generateFaqFromConversation(geminiCall.question, geminiCall.answer,
                                        geminiCall.reply))

\* ------------------------------------------------- client: pages/chat.tsx
ChatMessage(sender, n, message) ==
  [id |-> <<sender, n>>, sender |-> sender, message |-> message]

\* What the page's user types, what /api/ai/memory returns, what the chat
\* endpoint answers, and the errors apiRequest throws: isUnauthorizedError is
\* true of some of them and false of the others.
Inputs == { <<>>, <<" ">>, <<"a">> }
ClientHistories == { <<[message |-> <<"a">>, aiResponse |-> <<"Go to Settings">>]>> }
Responses == { <<"Go to Settings">> }
ClientErrors ==
  { [unauthorized |-> TRUE, message |-> "401: Unauthorized"],
    [unauthorized |-> FALSE, message |-> "500: Failed to generate AI response"] }

PageStep(page) ==
  /\ chatPage' = page
  /\ UNCHANGED <<aiSettings, userAiMemory, faqKnowledge, faqSeq, req, okCalls, lastSet,
                 geminiCall>>

\* The clock moves on by a millisecond.
Tick ==
  /\ chatPage.now < ClockStart + MaxClock
  /\ PageStep([chatPage EXCEPT !.now = @ + 1])

\* Lines 44-47: the settings query delivers its data.
SettingsLoaded(enabled) ==
  /\ chatPage.aiSettings # Bool(enabled)
  /\ PageStep([chatPage EXCEPT !.aiSettings = Bool(enabled)])

\* Lines 55-74: the history query delivers a list that is not empty and the
\* message list is replaced by its turns.
RECURSIVE LoadedMessages(_, _)
LoadedMessages(history, i) ==
  IF i > Len(history) THEN <<>>
  ELSE << ChatMessage("user", i - 1, history[i].message),
          ChatMessage("ai", i - 1, history[i].aiResponse) >>
       \o LoadedMessages(history, i + 1)

HistoryLoaded(history) ==
  /\ Len(history) > 0
  /\ chatPage.messages # LoadedMessages(history, 1)
  /\ PageStep([chatPage EXCEPT !.messages = LoadedMessages(history, 1),
                               !.rolledBack = FALSE])

\* Line 278: onChange of the input, which is disabled while the mutation is
\* pending and while the assistant is not enabled (line 280).
InputChanged(text) ==
  /\ ~chatPage.isPending /\ Truthy(chatPage.aiSettings)
  /\ chatPage.input # text
  /\ PageStep([chatPage EXCEPT !.input = text])

\* handleSend, lines 121-143; with an input of blanks only it returns at once.
handleSend ==
  /\ ~chatPage.isPending
  /\ chatPage.sends < MaxSends
  /\ Trim(chatPage.input) # <<>>
  /\ PageStep(
       IF ~Truthy(chatPage.aiSettings)
       THEN [chatPage EXCEPT !.toast = "AI Chat Disabled"]
       ELSE [chatPage EXCEPT
               !.messages = Append(@, ChatMessage("user", chatPage.now, chatPage.input)),
               !.before = chatPage.messages, !.rolledBack = FALSE,
               !.isPending = TRUE, !.input = <<>>, !.sends = @ + 1])

\* chatMutation.onSuccess, lines 88-99.
onSuccess(response) ==
  /\ chatPage.isPending
  /\ PageStep([chatPage EXCEPT
                 !.messages = Append(@, ChatMessage("ai", chatPage.now, response)),
                 !.isPending = FALSE])

\* chatMutation.onError, lines 100-118.
onError(error) ==
  /\ chatPage.isPending
  /\ PageStep(
       IF error.unauthorized
       THEN [chatPage EXCEPT !.toast = "Unauthorized", !.isPending = FALSE]
       ELSE [chatPage EXCEPT
               !.toast = "Error",
               !.messages = SelectSeq(@, LAMBDA m : m.id # <<"user", chatPage.now>>),
               !.rolledBack = TRUE, !.isPending = FALSE])

\* ---------------------------------------------------------- specifications
\* Chat calls that may still append a turn.
Pending ==
  Cardinality({ r \in Reqs : req[r].kind = "chat"
                  /\ req[r].pc \in {"gateSelect", "gateInsert", "memLoad", "generate", "persist"} })

ChatSteps(r) ==
  \/ \E out \in DbOutcomes : ChatGateSelect(r, out)
  \/ \E out \in DbOutcomes : ChatGateInsert(r, out)
  \/ \E out \in DbOutcomes : ChatMemLoad(r, out)
  \/ \E reply \in Replies : ChatGenerate(r, reply)
  \/ \E out \in DbOutcomes : ChatPersist(r, out)
  \/ ChatRespond(r)

SettingsSteps(r) ==
  \/ \E out \in DbOutcomes : GetSettingsSelect(r, out)
  \/ \E out \in DbOutcomes : GetSettingsInsert(r, out)
  \/ \E out \in DbOutcomes : SetSettingsSelect(r, out)
  \/ \E out \in DbOutcomes : SetSettingsInsert(r, out)
  \/ \E out \in DbOutcomes : SetSettingsUpdate(r, out)

\* The chat endpoint: concurrent chat calls of all callers, interleaved at
\* their awaits, over every content of the flag table.
Next ==
  \E r \in Reqs :
    \/ \E session \in Sessions, m \in Messages :
         Len(userAiMemory) + Pending < MaxTurns /\ ChatStart(r, session, m)
    \/ ChatSteps(r)

Spec == Init /\ [][Next]_vars

\* The settings endpoints: concurrent reads and writes of the flag, from a
\* fresh database.
NextGate ==
  \E r \in Reqs :
    \/ \E session \in Sessions : GetSettingsStart(r, session)
    \/ \E session \in Sessions, enabled \in EnabledValues, out \in DbOutcomes :
         SetSettingsStart(r, session, enabled, out)
    \/ SettingsSteps(r)

SpecGate == InitFresh /\ [][NextGate]_vars

\* One user's long conversation: the calls of one session, one after the
\* other, until the memory holds more turns than the store returns.
HistSession == Session("alice", "local", FALSE, "none")
HistMessage == Str(<<"a">>)

NextHist ==
  \/ Len(userAiMemory) + Pending < MaxHistTurns /\ ChatStart("r1", HistSession, HistMessage)
  \/ ChatSteps("r1")
  \/ MemoryStart("r1", HistSession)
  \/ \E out \in DbOutcomes : MemorySelect("r1", out)

SpecHist == Init /\ [][NextHist]_vars

\* The chat endpoint next to the knowledge store: one call at a time while
\* FAQ entries are created and deleted.
NextFaq ==
  \/ \E session \in Sessions, m \in Messages :
       Len(userAiMemory) + Pending < MaxTurns /\ ChatStart("r1", session, m)
  \/ ChatSteps("r1")
  \/ \E faq \in FaqTexts : createFaqKnowledge(faq)
  \/ \E id \in 1..MaxFaq : deleteFaqKnowledge(id)

SpecFaq == Init /\ [][NextFaq]_vars

\* Two users side by side: the chat calls of alice and bob, one after the
\* other, while either of them reads the memory endpoint.
PartitionSessions ==
  { Session("alice", "local", FALSE, "none"), Session("bob", "local", FALSE, "none") }

NextPartition ==
  \/ \E session \in PartitionSessions :
       /\ Len(userAiMemory) + Pending < MaxPartitionTurns
       /\ ChatStart("r1", session, HistMessage)
  \/ ChatSteps("r1")
  \/ \E session \in PartitionSessions : MemoryStart("r2", session)
  \/ \E out \in DbOutcomes : MemorySelect("r2", out)

SpecPartition == InitFresh /\ [][NextPartition]_vars

\* The chat calls of one connection under the scheduling of the server: the
\* event loop runs the continuation of every await whose promise is settled,
\* and the database answers every statement, so each of these steps is taken
\* once it stays possible.  Nothing bounds the time generateContent takes
\* (gemini.ts 48-51 passes no timeout or abort signal), so no fairness is
\* stated for the arrival of its reply.
NextLive ==
  \/ \E session \in Sessions, m \in Messages :
       Len(userAiMemory) + Pending < MaxTurns /\ ChatStart("r1", session, m)
  \/ ChatSteps("r1")

FairLive ==
  /\ WF_vars(\E out \in DbOutcomes : ChatGateSelect("r1", out))
  /\ WF_vars(\E out \in DbOutcomes : ChatGateInsert("r1", out))
  /\ WF_vars(\E out \in DbOutcomes : ChatMemLoad("r1", out))
  /\ WF_vars(\E out \in DbOutcomes : ChatPersist("r1", out))
  /\ WF_vars(ChatRespond("r1"))

SpecLive == Init /\ [][NextLive]_vars /\ FairLive

\* The functions of gemini.ts, each called once, with every reply of the
\* backend.
InitGemini ==
  /\ aiSettings = <<>>
  /\ lastSet = <<>>
  /\ userAiMemory = <<>>
  /\ faqKnowledge = <<>>
  /\ faqSeq = 0
  /\ req = [r \in Reqs |-> Idle]
  /\ okCalls = [u \in UserIds |-> 0]
  /\ chatPage = ChatPageInit
  /\ \/ \E reply \in Replies, context \in Contexts :
          geminiCall = CalledWith(context, reply)
     \/ \E reply \in ParsedReplies :
          geminiCall = Called("analyzePdfContent", <<>>, <<>>, reply)
     \/ \E reply \in ParsedReplies, c \in Conversations :
          geminiCall = Called("generateFaqFromConversation", c[1], c[2], reply)

NextGemini ==
  \/ GenerateAIResponseEnds
  \/ AnalyzePdfContentEnds
  \/ GenerateFaqFromConversationEnds

SpecGemini == InitGemini /\ [][NextGemini]_vars

\* The same call made twice: two calls of one session with one message, whose
\* storage statements may fail with one of two texts and whose generation may
\* fail with either of the backend's errors.
DbErrorOutcomes ==
  DbOutcomes \cup { [ok |-> FALSE, text |-> "timeout exceeded when trying to connect"] }

NextErrors ==
  \E r \in Reqs :
    \/ Len(userAiMemory) + Pending < MaxTurns /\ ChatStart(r, HistSession, HistMessage)
    \/ \E out \in DbErrorOutcomes : ChatGateSelect(r, out)
    \/ \E out \in DbErrorOutcomes : ChatGateInsert(r, out)
    \/ \E out \in DbErrorOutcomes : ChatMemLoad(r, out)
    \/ \E reply \in Replies : ChatGenerate(r, reply)
    \/ \E out \in DbErrorOutcomes : ChatPersist(r, out)
    \/ ChatRespond(r)

SpecErrors == Init /\ [][NextErrors]_vars

\* The chat endpoint, the knowledge store's own operations and the calls of
\* analyzePdfContent and generateFaqFromConversation side by side: one chat
\* call at a time, FAQ entries created and deleted, one call of either
\* function that ends at any moment.
InitFrame ==
  /\ aiSettings = <<>>
  /\ lastSet = <<>>
  /\ userAiMemory = <<>>
  /\ faqKnowledge = <<>>
  /\ faqSeq = 0
  /\ req = [r \in Reqs |-> Idle]
  /\ okCalls = [u \in UserIds |-> 0]
  /\ chatPage = ChatPageInit
  /\ \/ \E reply \in ParsedReplies :
          geminiCall = Called("analyzePdfContent", <<>>, <<>>, reply)
     \/ \E reply \in ParsedReplies, c \in Conversations :
          geminiCall = Called("generateFaqFromConversation", c[1], c[2], reply)

NextFrame ==
  \/ Len(userAiMemory) + Pending < MaxTurns /\ ChatStart("r1", HistSession, HistMessage)
  \/ ChatSteps("r1")
  \/ \E faq \in FaqTexts : createFaqKnowledge(faq)
  \/ \E id \in 1..MaxFaq : deleteFaqKnowledge(id)
  \/ AnalyzePdfContentEnds
  \/ GenerateFaqFromConversationEnds

SpecFrame == InitFrame /\ [][NextFrame]_vars

\* A chat call next to the administrator's switch: one chat call at a time
\* while the administrator reads and sets the flag, the two interleaved at
\* their awaits.
ToggleValues == { Bool(TRUE), Bool(FALSE) }

NextToggle ==
  \/ Len(userAiMemory) + Pending < MaxTurns /\ ChatStart("r1", HistSession, HistMessage)
  \/ ChatSteps("r1")
  \/ GetSettingsStart("r2", HistSession)
  \/ \E enabled \in ToggleValues : SetSettingsStart("r2", HistSession, enabled, DbOk)
  \/ SettingsSteps("r2")

SpecToggle == Init /\ [][NextToggle]_vars

\* The chat page: its user types and sends, the queries deliver their data,
\* the clock moves on, and the chat endpoint answers or fails.
NextClient ==
  \/ Tick
  \/ \E enabled \in BOOLEAN : SettingsLoaded(enabled)
  \/ \E history \in ClientHistories : HistoryLoaded(history)
  \/ \E text \in Inputs : InputChanged(text)
  \/ handleSend
  \/ \E response \in Responses : onSuccess(response)
  \/ \E error \in ClientErrors : onError(error)

SpecClient == InitFresh /\ [][NextClient]_vars

\* ------------------------------------------------------------------ claims
ChatReq(r) == req[r].kind = "chat"
ChatDone(r) == ChatReq(r) /\ req[r].pc = "done"

\* The handler of a done call was entered (the middleware did not answer).
Entered(r) == req[r].status # 401

\* A message the specification calls invalid: missing or not text, empty, or
\* made of whitespace only.
ClaimInvalid(m) == m.t # "string" \/ \A i \in DOMAIN m.s : m.s[i] = " "

HasTurn(userId, message, text) ==
  \E i \in DOMAIN userAiMemory :
    /\ userAiMemory[i].userId = userId
    /\ userAiMemory[i].message = message
    /\ userAiMemory[i].aiResponse = text

TurnsOf(u) == Cardinality({ i \in DOMAIN userAiMemory : userAiMemory[i].userId = u })

Responding(u) ==
  Cardinality({ r \in Reqs : ChatReq(r) /\ req[r].pc = "respond" /\ req[r].user = u })

\* Every row of the flag table is switched off.
StoreDisabled ==
  aiSettings # <<>> /\ \A i \in DOMAIN aiSettings : ~aiSettings[i].geminiEnabled

\* C1: the step in which the generation of a chat call fails leaves the memory
\* table as it was, the call has appended no turn before it, and the call ends
\* with the generation error as its answer (HTTP 500).
C1_NoTurnOnGenerationError ==
  [][\A r \in Reqs :
       (req[r].pc = "generate" /\ req'[r].genFailed) =>
         /\ userAiMemory' = userAiMemory
         /\ req'[r].memAppends = 0
         /\ req'[r].pc = "done"
         /\ req'[r].status = 500
         /\ req'[r].body = Message(GenerationErrorMessage)]_vars

\* C1 witness: a call ended by a generation failure while turns are stored.
C1_Witness ==
  \E r \in Reqs : ChatDone(r) /\ req[r].genFailed /\ req[r].status = 500
                  /\ Len(userAiMemory) >= 1

\* C2: a call whose gate check read a disabled flag has ended with 503
\* "disabled", and made no backend call, no memory read and no append.
C2_DisabledGateRejects ==
  \A r \in Reqs :
    (ChatReq(r) /\ req[r].gate = "disabled") =>
      /\ req[r].pc = "done"
      /\ req[r].status = 503
      /\ req[r].body = Message("Gemini AI is currently disabled")
      /\ req[r].backendCalls = 0
      /\ req[r].memReads = 0
      /\ req[r].memAppends = 0

\* C2 witness: a call rejected at the gate check.
C2_Witness ==
  \E r \in Reqs : ChatDone(r) /\ req[r].gate = "disabled" /\ req[r].status = 503

\* C3: the stored turns of a user are as many as that user's calls answered
\* with 200 (plus those that have appended and are about to answer); a call
\* that answers 200 appended one turn, with its user, its message and the text
\* it returns; a call that ends otherwise appended none.
C3_OneTurnPerSuccess ==
  /\ \A u \in UserIds : TurnsOf(u) = okCalls[u] + Responding(u)
  /\ \A r \in Reqs :
       ChatReq(r) =>
         /\ req[r].pc = "respond" =>
              /\ req[r].memAppends = 1
              /\ HasTurn(req[r].user, req[r].message, req[r].aiResponse)
         /\ (req[r].pc = "done" /\ req[r].status = 200) =>
              /\ req[r].memAppends = 1
              /\ req[r].body[1] = "response"
              /\ HasTurn(req[r].user, req[r].message, req[r].body[2])
         /\ (req[r].pc = "done" /\ req[r].status # 200) => req[r].memAppends = 0

\* C3 witness: two turns are stored, one call has answered 200 and another
\* has failed.
C3_Witness ==
  /\ Len(userAiMemory) >= 2
  /\ \E r \in Reqs : ChatDone(r) /\ req[r].status = 200
  /\ \E r \in Reqs : ChatDone(r) /\ req[r].status = 500

\* C4 as stated: with the flag switched off, a call is rejected as AI-disabled
\* also when its message is empty or not text.
C4_GateBeforeValidation ==
  \A r \in Reqs :
    (ChatDone(r) /\ Entered(r) /\ StoreDisabled /\ ClaimInvalid(req[r].message)) =>
      req[r].status = 503

\* C4 amended: validation comes first.  A call whose message is empty or not
\* text is rejected with 400 whatever the flag is and without reading it; the
\* AI-disabled rejection is only given to a message that passed validation.
C4_ValidationBeforeGate ==
  \A r \in Reqs :
    ChatDone(r) =>
      /\ (Entered(r) /\ ClaimInvalid(req[r].message)) =>
           /\ req[r].status = 400
           /\ req[r].flagReads = 0
           /\ req[r].gate = "unread"
      /\ req[r].status = 503 =>
           /\ ~ClaimInvalid(req[r].message)
           /\ req[r].gate = "disabled"

\* C4 witness: an invalid message rejected with 400 while the flag is off.
C4_Witness ==
  \E r \in Reqs : ChatDone(r) /\ req[r].status = 400 /\ StoreDisabled

\* C5: an invalid message (missing, not a string, empty, whitespace only) ends
\* the call with 400 "Message is required", no backend call, no memory read and
\* no append, and only such a message does; a message that passed is the one
\* put in the prompt and the one stored, untrimmed.
C5_ValidationRejects ==
  \A r \in Reqs :
    ChatReq(r) =>
      /\ (req[r].pc = "done" /\ Entered(r) /\ ClaimInvalid(req[r].message)) =>
           /\ req[r].status = 400
           /\ req[r].body = Message("Message is required")
           /\ req[r].backendCalls = 0
           /\ req[r].memReads = 0
           /\ req[r].memAppends = 0
      /\ (req[r].pc = "done" /\ req[r].status = 400) => ClaimInvalid(req[r].message)
      /\ req[r].pc # "done" => ~ClaimInvalid(req[r].message)
      /\ req[r].pc = "generate" =>
           req[r].prompt[Len(req[r].prompt)] = <<"current", req[r].message>>
      /\ req[r].pc = "respond" =>
           HasTurn(req[r].user, req[r].message, req[r].aiResponse)

\* C5 witness: a whitespace-only message was rejected with 400 and a message
\* with a leading blank is stored as it was sent.
C5_Witness ==
  /\ \E r \in Reqs : ChatDone(r) /\ req[r].status = 400 /\ req[r].message = Str(<<" ">>)
  /\ \E i \in DOMAIN userAiMemory : userAiMemory[i].message = Str(<<" ", "a">>)

\* The turns of a user in the order of their creation.
TurnsInOrder(u) == SelectSeq(userAiMemory, LAMBDA row : row.userId = u)

\* The last k elements of a sequence, all of them when there are fewer.
LastOf(seq, k) == SubSeq(seq, Len(seq) - Min(Len(seq), k) + 1, Len(seq))

PromptTurns(prompt) == SelectSeq(prompt, LAMBDA part : part[1] = "turn")

HasPart(prompt, part) == \E i \in DOMAIN prompt : prompt[i] = part

Composing(r) == ChatReq(r) /\ req[r].pc = "generate"

\* C6: while a call generates, the history it loaded is the last min(n, 10)
\* turns of its user, oldest first, and the turns in its prompt are the last
\* min(n, 5) turns of its user, oldest first, as User/Assistant pairs.
C6_PromptHasFiveMostRecent ==
  \A r \in Reqs :
    Composing(r) =>
      LET mine == TurnsInOrder(req[r].user)
          loaded == LastOf(mine, 10)
          recent == LastOf(mine, 5)
      IN /\ req[r].history =
              [i \in 1..Len(loaded) |->
                 [message |-> loaded[i].message, aiResponse |-> loaded[i].aiResponse]]
         /\ PromptTurns(req[r].prompt) =
              [i \in 1..Len(recent) |-> <<"turn", recent[i].message, recent[i].aiResponse>>]

\* C6 witness: a call composes over eleven stored turns, and the sixth and the
\* seventh differ, so that the window's edge shows in the prompt.
C6_Witness ==
  \E r \in Reqs :
    /\ Composing(r)
    /\ Len(TurnsInOrder(req[r].user)) = 11
    /\ userAiMemory[6].aiResponse # userAiMemory[7].aiResponse
    /\ userAiMemory[10].aiResponse # userAiMemory[11].aiResponse

\* C7: a call of a user with no stored turn composes over an empty history;
\* over an empty history the prompt carries the no-previous-conversation marker
\* and no turn, over a non-empty one it carries turns and no marker.
C7_EmptyHistoryMarker ==
  \A r \in Reqs :
    Composing(r) =>
      /\ (TurnsOf(req[r].user) = 0) <=> (req[r].history = <<>>)
      /\ req[r].history = <<>> =>
           /\ HasPart(req[r].prompt, <<"noHistory">>)
           /\ PromptTurns(req[r].prompt) = <<>>
      /\ req[r].history # <<>> =>
           /\ ~HasPart(req[r].prompt, <<"noHistory">>)
           /\ PromptTurns(req[r].prompt) # <<>>

\* C7 witness: the first call of a user composes its prompt.
C7_Witness ==
  \E r \in Reqs : Composing(r) /\ req[r].history = <<>> /\ userAiMemory = <<>>

\* C8 as stated: a prompt composed while the knowledge store held an entry
\* carries the FAQ block.
C8_FaqBlockInPrompt ==
  \A r \in Reqs :
    (Composing(r) /\ req[r].faqSeen > 0) => HasPart(req[r].prompt, <<"faqHeading">>)

\* What a read of the flag returns when no update was ever made: the default.
RegisterValue == IF lastSet = <<>> THEN TRUE ELSE lastSet[1]

\* C9 as stated: a read of the flag returns the value of the latest update,
\* and true when there was none: every row a read can be given carries it.
C9_BooleanRegister ==
  \A row \in SelectAiSettings : row # NoRow => row.geminiEnabled = RegisterValue

\* C10 as stated: concurrent first reads and writes leave one flag record.
C10_OneFlagRecord == Len(aiSettings) <= 1

\* The values a read of the flag may return: the default while the table is
\* empty, else the value of any row.
EnabledState ==
  IF aiSettings = <<>> THEN {TRUE}
  ELSE { aiSettings[i].geminiEnabled : i \in DOMAIN aiSettings }

\* The write of a setAvailability request of an administrator.
AdminWrite(r) ==
  /\ req[r].kind = "setSettings" /\ req[r].pc = "setUpdate"
  /\ req[r].user \in UserIds /\ users[req[r].user].isAdmin
  /\ req[r].enabled.t = "boolean"

\* C11 as stated: every step that changes what a read of the flag may return
\* is the write of a setAvailability request of an authenticated administrator.
C11_OnlyAdminWriteChangesFlag ==
  [][EnabledState' # EnabledState =>
       \E r \in Reqs : AdminWrite(r) /\ req'[r].pc = "done"]_vars

\* A call of the given function of gemini.ts that has ended.
Ended(fn) == geminiCall.fn = fn /\ geminiCall.pc = "returned"

\* C12: when the backend answers, generateAIResponse returns (it does not
\* throw) a text that is not empty, and the fallback sentence when the text of
\* the reply is empty or missing.
C12_NeverEmptyText ==
  (Ended("generateAIResponse") /\ geminiCall.reply.ok) =>
    /\ ~geminiCall.result.threw
    /\ geminiCall.result.value # ""
    /\ (~geminiCall.reply.present \/ geminiCall.reply.text = "") =>
         geminiCall.result.value = FallbackText

\* The backend answered with an empty text and the fallback was returned.
C12_Witness ==
  /\ Ended("generateAIResponse")
  /\ geminiCall.reply.ok /\ geminiCall.reply.present /\ geminiCall.reply.text = ""
  /\ geminiCall.result = Returned(FallbackText)

\* C13: a chat call whose generation failed, whatever the error of the
\* backend, is answered with HTTP 500 and the one fixed message.
C13_GenerationFailureAnswer ==
  \A r \in Reqs :
    (ChatDone(r) /\ req[r].genFailed) =>
      req[r].status = 500 /\ req[r].body = Message(GenerationErrorMessage)

\* Two chat calls whose generation failed, both answered with the message.
C13_Witness ==
  \A r \in Reqs :
    /\ ChatDone(r) /\ req[r].genFailed /\ req[r].backendCalls = 1
    /\ req[r].body = Message(GenerationErrorMessage)

\* The reply texts that are, once unwrapped, a JSON array.
ArrayReplyTexts ==
  ArrayTexts \cup { Fenced(text) : text \in ArrayTexts }
    \cup { PlainFenced(text) : text \in ArrayTexts }
    \cup MisshapenArrayTexts

EmptyList(result) ==
  ~result.threw /\ result.value.t = "array" /\ result.value.s = <<>>

\* C14: when the backend answers with a text that is no JSON, with a JSON
\* text whose value is no array, with an empty text or with none,
\* analyzePdfContent returns the empty list and does not throw.
C14_DegradesToEmptyList ==
  ( /\ Ended("analyzePdfContent")
    /\ geminiCall.reply.ok
    /\ geminiCall.reply.text \notin ArrayReplyTexts ) =>
    EmptyList(geminiCall.result)

\* The reply "not json" gave the empty list.
C14_Witness ==
  /\ Ended("analyzePdfContent")
  /\ geminiCall.reply.ok /\ geminiCall.reply.text = <<"not", " ", "json">>
  /\ EmptyList(geminiCall.result)

\* C15 as stated: for a JSON array text of {question, answer} objects inside
\* a json or a plain code fence, analyzePdfContent returns the parsed
\* entries of that text.
C15_FenceTransparent ==
  \A text \in ArrayTexts :
    ( /\ Ended("analyzePdfContent")
      /\ geminiCall.reply.ok
      /\ geminiCall.reply.text \in {Fenced(text), PlainFenced(text)} ) =>
      /\ ~geminiCall.result.threw
      /\ geminiCall.result.value = JSONParse(text).value

\* C16: generateFaqFromConversation returns null, and does not throw, when
\* the backend call fails, when the reply has an empty text or none, when its
\* text is no JSON, and when it is the shouldSave:false reply, bare or fenced.
C16_LearnerFailsClosed ==
  ( /\ Ended("generateFaqFromConversation")
    /\ \/ ~geminiCall.reply.ok
       \/ ~geminiCall.reply.present
       \/ geminiCall.reply.text \in NotJsonTexts \cup {<<>>}
       \/ geminiCall.reply.text \in {ShouldSaveFalseText, Fenced(ShouldSaveFalseText)} ) =>
    ~geminiCall.result.threw /\ geminiCall.result.value.t = "null"

\* The reply had no text and the learner returned null.
C16_Witness ==
  /\ Ended("generateFaqFromConversation")
  /\ geminiCall.reply.ok /\ ~geminiCall.reply.present
  /\ geminiCall.result = Returned(Null)

\* Replies that are an object other than the sentinel, each with the refined
\* question and answer it carries: <<v>> for a field that is present and not
\* empty, <<>> for a field that is missing, empty or null.
RefinedReplies ==
  { <<EntryText(<<"Q1">>, <<"A1">>), <<Str(<<"Q1">>)>>, <<Str(<<"A1">>)>>>>,
    <<Fenced(EntryText(<<"Q1">>, <<"A1">>)), <<Str(<<"Q1">>)>>, <<Str(<<"A1">>)>>>>,
    <<ObjectText(<< <<"shouldSave", <<"true">>>>, <<"question", Lit(<<"Q1">>)>>,
                    <<"answer", Lit(<<"A1">>)>> >>),
      <<Str(<<"Q1">>)>>, <<Str(<<"A1">>)>>>>,
    <<ObjectText(<< <<"answer", Lit(<<"A1">>)>> >>), <<>>, <<Str(<<"A1">>)>>>>,
    <<ObjectText(<< <<"question", Lit(<<"Q1">>)>> >>), <<Str(<<"Q1">>)>>, <<>>>>,
    <<ObjectText(<< <<"question", Lit(<<>>)>>, <<"answer", Lit(<<"A1">>)>> >>),
      <<>>, <<Str(<<"A1">>)>>>>,
    <<ObjectText(<< <<"question", Lit(<<"Q1">>)>>, <<"answer", Lit(<<>>)>> >>),
      <<Str(<<"Q1">>)>>, <<>>>>,
    <<ObjectText(<< <<"question", <<"null">>>>, <<"answer", <<"5">>>> >>),
      <<>>, <<Num(5)>>>>,
    <<ObjectText(<< <<"shouldSave", Lit(<<"false">>)>> >>), <<>>, <<>>>>,
    <<<<"{", "}">>, <<>>, <<>>>> }

Refined(field, original) == IF field = <<>> THEN Str(original) ELSE field[1]

\* C17: for a reply that is an object other than the sentinel,
\* generateFaqFromConversation returns the pair whose question and answer are
\* the refined ones where the reply carries them, else those it was given.
C17_RefinedOrOriginal ==
  \A c \in RefinedReplies :
    ( /\ Ended("generateFaqFromConversation")
      /\ geminiCall.reply.ok /\ geminiCall.reply.present
      /\ geminiCall.reply.text = c[1] ) =>
      geminiCall.result =
        Returned(FaqPair(Refined(c[2], geminiCall.question),
                         Refined(c[3], geminiCall.answer)))

\* The reply lacked the question: the pair has the question that was given
\* and the answer of the reply.
C17_Witness ==
  /\ Ended("generateFaqFromConversation")
  /\ geminiCall.reply.ok /\ geminiCall.reply.present
  /\ geminiCall.reply.text = ObjectText(<< <<"answer", Lit(<<"A1">>)>> >>)
  /\ geminiCall.question = <<"q0">>
  /\ geminiCall.result = Returned(FaqPair(Str(<<"q0">>), Str(<<"A1">>)))

\* The turns of a sequence of rows as the history carries them.
AsHistory(rows) ==
  [i \in 1..Len(rows) |-> [message |-> rows[i].message, aiResponse |-> rows[i].aiResponse]]

IsPrefix(s, t) == Len(s) <= Len(t) /\ s = SubSeq(t, 1, Len(s))

MemoryAnswered(r) == req[r].kind = "memory" /\ req[r].pc = "done" /\ req[r].status = 200

\* C18: the history a chat call loaded is that of the turns of its own user
\* and its prompt is the one composed over these turns alone; the list the
\* memory endpoint returned holds rows of its caller only, the caller's turns
\* in the order they were stored.
C18_MemoryPartitioned ==
  \A r \in Reqs :
    /\ Composing(r) =>
         LET own == AsHistory(TurnsInOrder(req[r].user))
         IN /\ req[r].history = own
            /\ req[r].prompt = ComposePrompt(ChatContext(req[r].user, req[r].message, own))
    /\ MemoryAnswered(r) =>
         /\ \A i \in DOMAIN req[r].body[2] : req[r].body[2][i].userId = req[r].user
         /\ IsPrefix(req[r].body[2], TurnsInOrder(req[r].user))

\* alice composes over her own turn while bob's turn is stored between hers
\* and the call, and bob has read his one turn from the memory endpoint.
C18_Witness ==
  /\ Len(userAiMemory) = 2
  /\ userAiMemory[1].userId = "alice" /\ userAiMemory[2].userId = "bob"
  /\ userAiMemory[1].aiResponse # userAiMemory[2].aiResponse
  /\ Composing("r1") /\ req["r1"].user = "alice" /\ Len(req["r1"].history) = 1
  /\ MemoryAnswered("r2") /\ req["r2"].user = "bob" /\ Len(req["r2"].body[2]) = 1

\* C19: every step leaves the stored turns as they are, with their owner,
\* message and response, in their places; a step only adds turns after them.
C19_MemoryAppendOnly ==
  [][IsPrefix(userAiMemory, userAiMemory')]_vars

\* A user's first turn is still stored after a turn of the other user and a
\* second, different turn of the same user were stored.
C19_Witness ==
  /\ Len(userAiMemory) = 3
  /\ userAiMemory[1].userId = userAiMemory[3].userId
  /\ userAiMemory[1].userId # userAiMemory[2].userId
  /\ userAiMemory[1].aiResponse # userAiMemory[3].aiResponse

\* C20 as stated: every chat call that was started ends, with a response or
\* with an error.
C20_EveryCallEnds ==
  \A r \in Reqs : (ChatReq(r) /\ req[r].pc # "done") ~> ChatDone(r)

IsFaqPart(part) == part[1] \in {"faqHeading", "faq", "faqInstruction"}

\* C21: the prompt generateAIResponse composed for a list of n >= 1 FAQ
\* entries has one FAQ heading, right after it the n entries numbered 1..n in
\* the order of the list, then the usage instruction, no other FAQ part, and
\* the history heading after them; for an empty or absent list it has no FAQ
\* part at all.
C21_FaqBlockFormat ==
  Ended("generateAIResponse") =>
    LET context == geminiCall.context
        faqs == context.faqKnowledge
        n == Len(faqs)
        prompt == geminiCall.prompt
    IN IF context.faqGiven /\ n >= 1
       THEN \E k \in DOMAIN prompt :
              /\ prompt[k] = <<"faqHeading">>
              /\ k + n + 1 <= Len(prompt)
              /\ \A i \in 1..n :
                   prompt[k + i] = <<"faq", i, faqs[i].question, faqs[i].answer>>
              /\ prompt[k + n + 1] = <<"faqInstruction">>
              /\ \A j \in DOMAIN prompt : IsFaqPart(prompt[j]) => j \in k..(k + n + 1)
              /\ \E h \in DOMAIN prompt : h > k + n + 1 /\ prompt[h] = <<"historyHeading">>
       ELSE \A j \in DOMAIN prompt : ~IsFaqPart(prompt[j])

\* A prompt was composed for a list of two different entries.
C21_Witness ==
  /\ Ended("generateAIResponse")
  /\ geminiCall.context.faqGiven
  /\ Len(geminiCall.context.faqKnowledge) = 2
  /\ geminiCall.context.faqKnowledge[1] # geminiCall.context.faqKnowledge[2]
  /\ HasPart(geminiCall.prompt, <<"faqHeading">>)

\* A call that has appended its turn: about to answer, or answered with 200.
Appended(r) ==
  ChatReq(r) /\ (req[r].pc = "respond" \/ (req[r].pc = "done" /\ req[r].status = 200))

\* The text such a call returns.
TextOf(r) == IF req[r].pc = "respond" THEN req[r].aiResponse ELSE req[r].body[2]

IsTurnOf(i, r) ==
  /\ userAiMemory[i].userId = req[r].user
  /\ userAiMemory[i].message = req[r].message
  /\ userAiMemory[i].aiResponse = TextOf(r)

\* C22: when two calls of one user have both generated and appended, the
\* table holds a row for each of them, two different rows, and the user has as
\* many rows as appends were made for that user; the history a call composed
\* over holds stored turns of its user only, whatever the other call did in
\* between.
C22_ConcurrentTurnsBothStored ==
  /\ \A r1, r2 \in Reqs :
       (r1 # r2 /\ Appended(r1) /\ Appended(r2) /\ req[r1].user = req[r2].user) =>
         /\ \E i, j \in DOMAIN userAiMemory : i # j /\ IsTurnOf(i, r1) /\ IsTurnOf(j, r2)
         /\ TurnsOf(req[r1].user) = okCalls[req[r1].user] + Responding(req[r1].user)
  /\ \A r \in Reqs :
       Composing(r) =>
         \A k \in DOMAIN req[r].history :
           HasTurn(req[r].user, req[r].history[k].message, req[r].history[k].aiResponse)

\* C22 witness: two calls of one user that loaded the same empty history have
\* both appended and neither has answered yet.
C22_Witness ==
  \E r1, r2 \in Reqs :
    /\ r1 # r2 /\ req[r1].user = req[r2].user
    /\ ChatReq(r1) /\ req[r1].pc = "respond"
    /\ ChatReq(r2) /\ req[r2].pc = "respond"
    /\ req[r1].message = req[r2].message
    /\ TurnsOf(req[r1].user) = 2

\* Two calls that took the same steps: the same user and message, the same
\* reads of the flag and of the memory, the same calls of the backend, the
\* same appends, and the generation failed in both or in neither.
SameSteps(r1, r2) ==
  /\ req[r1].user = req[r2].user /\ req[r1].message = req[r2].message
  /\ req[r1].gate = req[r2].gate
  /\ req[r1].flagReads = req[r2].flagReads /\ req[r1].memReads = req[r2].memReads
  /\ req[r1].backendCalls = req[r2].backendCalls
  /\ req[r1].memAppends = req[r2].memAppends
  /\ req[r1].genFailed = req[r2].genFailed

\* C23 as stated: two calls that took the same steps and ended with HTTP 500
\* carry the same message, whatever the text of the error raised inside.
C23_ErrorReplyIndependent ==
  \A r1, r2 \in Reqs :
    (ChatDone(r1) /\ ChatDone(r2) /\ SameSteps(r1, r2)
       /\ req[r1].status = 500 /\ req[r2].status = 500) =>
      req[r1].body = req[r2].body

\* What does hold: two calls whose generation failed carry the same message.
C23_GenerationFailuresAlike ==
  \A r1, r2 \in Reqs :
    (ChatDone(r1) /\ ChatDone(r2) /\ req[r1].genFailed /\ req[r2].genFailed) =>
      req[r1].status = req[r2].status /\ req[r1].body = req[r2].body

\* C24: a step of the chat handler leaves the knowledge store as it was and
\* starts or ends no call of the learner or of the extractor; the step in
\* which analyzePdfContent or generateFaqFromConversation ends changes no
\* table, only the value handed back to the caller.
C24_KnowledgeStoreFrame ==
  [][ /\ req' # req =>
           /\ faqKnowledge' = faqKnowledge /\ faqSeq' = faqSeq
           /\ geminiCall' = geminiCall
      /\ geminiCall' # geminiCall =>
           /\ geminiCall.fn \in {"analyzePdfContent", "generateFaqFromConversation"}
           /\ UNCHANGED <<aiSettings, userAiMemory, faqKnowledge, faqSeq>> ]_vars

\* C24 witness: with an entry in the knowledge store a chat call has stored
\* its turn and answered, and the learner has returned a pair to its caller.
C24_Witness ==
  /\ Len(faqKnowledge) = 1
  /\ ChatDone("r1") /\ req["r1"].status = 200 /\ Len(userAiMemory) >= 1
  /\ Ended("generateFaqFromConversation")
  /\ ~geminiCall.result.threw /\ geminiCall.result.value.t = "object"

\* An object with a question and an answer that are texts and not empty.
FaqEntryShaped(value) ==
  /\ value.t = "object"
  /\ Get(value, "question").t = "string" /\ Get(value, "question").s # <<>>
  /\ Get(value, "answer").t = "string" /\ Get(value, "answer").s # <<>>

\* C25 as stated: every element of a list analyzePdfContent returns is an
\* object with a question and an answer that are texts and not empty.
C25_ElementsFaqShaped ==
  ( /\ Ended("analyzePdfContent")
    /\ ~geminiCall.result.threw /\ geminiCall.result.value.t = "array" ) =>
    \A i \in DOMAIN geminiCall.result.value.s :
      FaqEntryShaped(geminiCall.result.value.s[i])

\* C26: a chat call that went past the gate check asked for the flag once, was
\* given an enabled row, and asks no more: whatever it does afterwards (the
\* memory load, the generation, the append, the answer) it does after that
\* one read; a call answered 503 did none of these, so a call that has read
\* an enabled flag is never rejected as disabled later on.
C26_GateReadOnce ==
  \A r \in Reqs :
    ChatReq(r) =>
      /\ req[r].flagReads <= 1
      /\ ( \/ req[r].pc \in {"memLoad", "generate", "persist", "respond"}
           \/ req[r].memReads >= 1 \/ req[r].backendCalls >= 1 \/ req[r].memAppends >= 1 ) =>
           req[r].flagReads = 1 /\ req[r].gate = "enabled"
      /\ (req[r].pc = "done" /\ req[r].status = 503) =>
           /\ req[r].gate = "disabled"
           /\ req[r].memReads = 0 /\ req[r].backendCalls = 0 /\ req[r].memAppends = 0
      /\ (req[r].pc = "done" /\ req[r].status = 200) =>
           req[r].flagReads = 1 /\ req[r].memAppends = 1

\* C26 witness: a call that read an enabled flag appended its turn at a moment
\* when the administrator's update had switched every row of the flag off.
C26_Witness ==
  /\ ChatReq("r1") /\ req["r1"].pc = "respond"
  /\ req["r1"].gate = "enabled" /\ req["r1"].flagReads = 1
  /\ req["r1"].memAppends = 1 /\ req["r1"].flagAtAppend = "disabled"
  /\ lastSet = <<FALSE>>
  /\ Len(userAiMemory) >= 1

\* C27: the step that answers a chat call with 200 is taken after the call's
\* INSERT has completed, with the turn in the table, and writes nothing; the
\* step in which the INSERT fails ends the call with HTTP 500 and a message
\* that is not the generated text, and leaves the memory table as it was,
\* without an append of that call.
C27_ReplyAfterAppend ==
  [][\A r \in Reqs :
       /\ (req[r].pc # "done" /\ req'[r].pc = "done" /\ req'[r].status = 200) =>
            /\ ChatReq(r) /\ req[r].pc = "respond"
            /\ req[r].memAppends = 1
            /\ req'[r].body = <<"response", req[r].aiResponse>>
            /\ HasTurn(req[r].user, req[r].message, req[r].aiResponse)
            /\ userAiMemory' = userAiMemory
       /\ (ChatReq(r) /\ req[r].pc = "persist" /\ req'[r].pc = "done") =>
            /\ req'[r].status = 500
            /\ req'[r].body[1] = "message"
            /\ req'[r].body[2] # req[r].aiResponse
            /\ req'[r].memAppends = 0
            /\ userAiMemory' = userAiMemory]_vars

\* C27 witness: a call whose generation succeeded and whose INSERT failed has
\* ended with 500, while the other call has stored its turn.
C27_Witness ==
  \E r \in Reqs :
    /\ ChatDone(r) /\ req[r].status = 500
    /\ req[r].backendCalls = 1 /\ ~req[r].genFailed /\ req[r].memAppends = 0
    /\ req[r].body[1] = "message"
    /\ Len(userAiMemory) = 1

\* C28: when the call of the backend fails, analyzePdfContent throws an error
\* with its fixed message, whatever the error of the backend was, and does
\* not return the empty list, while generateFaqFromConversation returns null;
\* analyzePdfContent throws in no other case, so output that is no JSON or no
\* array still gives the empty list.
C28_AnalysisFailureRaised ==
  /\ Ended("analyzePdfContent") =>
       /\ ~geminiCall.reply.ok => geminiCall.result = Thrown(AnalysisErrorMessage)
       /\ geminiCall.result.threw => ~geminiCall.reply.ok
       /\ (geminiCall.reply.ok /\ geminiCall.reply.text \in NotJsonTexts) =>
            EmptyList(geminiCall.result)
  /\ (Ended("generateFaqFromConversation") /\ ~geminiCall.reply.ok) =>
       geminiCall.result = Returned(Null)

\* C28 witness: analyzePdfContent has thrown on a failed backend call.
C28_Witness ==
  /\ Ended("analyzePdfContent")
  /\ ~geminiCall.reply.ok /\ geminiCall.reply.text = <<"service", " ", "unavailable">>
  /\ geminiCall.result.threw
  /\ geminiCall.result.value = AnalysisErrorMessage

\* Replies that parse, carry neither a question nor an answer and are not the
\* sentinel: {}, {"shouldSave": true}, {"shouldSave": "false"}, a number, a
\* string and an array.
NeitherFieldTexts ==
  { <<"{", "}">>,
    ObjectText(<< <<"shouldSave", <<"true">>>> >>),
    ObjectText(<< <<"shouldSave", Lit(<<"false">>)>> >>),
    <<"5">>,
    Lit(<<"Q1">>),
    <<"[", "]">> }

\* The reply is a JSON object with a question or an answer member.
CarriesRefined(reply) ==
  /\ reply.ok /\ reply.present
  /\ LET parsed == JSONParse(CleanedText(reply.text))
     IN /\ parsed.ok /\ parsed.value.t = "object"
        /\ \/ Get(parsed.value, "question").t # "undefined"
           \/ Get(parsed.value, "answer").t # "undefined"

\* C29 as stated: generateFaqFromConversation returns a pair only for a reply
\* that is an object carrying a question or an answer, and null for a reply
\* that parses, carries neither and is not the sentinel.
C29_SavesOnlyApproved ==
  Ended("generateFaqFromConversation") =>
    /\ geminiCall.result.value.t # "null" => CarriesRefined(geminiCall.reply)
    /\ (geminiCall.reply.ok /\ geminiCall.reply.present
          /\ geminiCall.reply.text \in NeitherFieldTexts) =>
         geminiCall.result.value.t = "null"

\* The replies for which the learner gives null: a failed call, no text or
\* an empty one, a text that is no JSON, the JSON text null, and an object
\* whose shouldSave is the boolean false, bare or fenced.
RejectingReply(reply) ==
  \/ ~reply.ok
  \/ ~reply.present
  \/ reply.text \in NotJsonTexts \cup {<<>>, <<"null">>}
  \/ reply.text \in
       { ShouldSaveFalseText, Fenced(ShouldSaveFalseText),
         ObjectText(<< <<"shouldSave", <<"false">>>>, <<"question", Lit(<<"Q1">>)>>,
                       <<"answer", Lit(<<"A1">>)>> >>) }

\* C29 amended: generateFaqFromConversation never throws; it returns null
\* exactly for the rejecting replies and a pair for every other reply; for a
\* reply that parses and carries neither a question nor an answer the pair is
\* the question and the answer it was given, unchanged.
C29_NullOnlyWhenRejected ==
  Ended("generateFaqFromConversation") =>
    /\ ~geminiCall.result.threw
    /\ geminiCall.result.value.t = "null" <=> RejectingReply(geminiCall.reply)
    /\ geminiCall.result.value.t # "null" => geminiCall.result.value.t = "object"
    /\ (geminiCall.reply.ok /\ geminiCall.reply.present
          /\ geminiCall.reply.text \in NeitherFieldTexts) =>
         geminiCall.result =
           Returned(FaqPair(Str(geminiCall.question), Str(geminiCall.answer)))

\* C29 witness: the reply {"shouldSave": true} gave the pair that was handed in.
C29_Witness ==
  /\ Ended("generateFaqFromConversation")
  /\ geminiCall.reply.ok /\ geminiCall.reply.present
  /\ geminiCall.reply.text = ObjectText(<< <<"shouldSave", <<"true">>>> >>)
  /\ geminiCall.question = <<"q0">> /\ geminiCall.answer = <<"a0">>
  /\ geminiCall.result = Returned(FaqPair(Str(<<"q0">>), Str(<<"a0">>)))

\* C30 as stated: once the error handler has dealt with a failure that is no
\* authorization error, the message list is what it was before the send.
C30_SendRolledBack ==
  chatPage.rolledBack => chatPage.messages = chatPage.before

====
